---------------------------- MODULE Spec2Model ----------------------------
(***************************************************************************)
(* A model of the Semantic Truth Engine core:                              *)
(*   - TextToCypherConverter.query (src/pipeline/text_to_cypher.py): the   *)
(*     bounded generate / execute retry loop over the completion service   *)
(*     and the Neo4j store;                                                *)
(*   - VerificationAgent (src/agents/verification_agent.py): the ground    *)
(*     truth lookup loop, the confidence-score parser, the fact            *)
(*     comparison and the fact extractor;                                  *)
(*   - ExtractorAgent.extract_subgraph (src/agents/extractor_agent.py):    *)
(*     entity identification, node search and one-hop traversal;           *)
(*   - FactCheckingOrchestrator.check_facts (src/agents/orchestrator.py);  *)
(*   - LineageTracker (src/visualization/lineage.py): the shortest-path    *)
(*     search with its lineage and explanation, and the lineage map;       *)
(*   - Neo4jConnection (src/graph/neo4j_manager.py): connect, close and    *)
(*     the lazily connecting execute_query;                                *)
(*   - DocumentProcessor.chunk_text (src/utils/document_processor.py);     *)
(*   - IngestionPipeline.ingest_document (src/pipeline/ingestion.py).      *)
(* Each component is a state machine of its own; a specification runs one  *)
(* component and keeps the others in their idle state.                     *)
(***************************************************************************)
EXTENDS Integers, Sequences, FiniteSets, TLC

VARIABLES
    \* ---- Neo4jConnection
    driver,          \* Neo4jConnection.driver: "none" (None) or "open"
    \* ---- TextToCypherConverter.query
    max_retries,     \* self.max_retries (config.max_retries)
    q_pc,            \* position inside query()
    attempt,         \* the loop variable of for attempt in range(max_retries)
    schema,          \* the schema text handed to the prompt
    cypher_query,    \* the candidate of the current attempt
    llm_calls,       \* completion invocations made by this call of query()
    schema_runs,     \* store executions made by _get_graph_schema
    cand_runs,       \* store executions of generated candidates
    q_log,           \* one entry per finished attempt
    q_result,        \* the value query() returned
    q_raised,        \* TRUE when an exception escaped query()
    \* ---- VerificationAgent._get_ground_truth
    entities,        \* the entity-name list passed in
    g_pc,            \* position inside _get_ground_truth
    g_idx,           \* how many names of the slice the loop has processed
    ground_truth,    \* the mapping being built
    g_searched,      \* the names handed to wikipedia.search, in call order
    g_last,          \* what the last lookup did
    g_raised,        \* TRUE when an exception escaped _get_ground_truth
    \* ---- VerificationAgent._extract_confidence_score
    c_text,          \* the response text passed in
    c_pc,            \* position inside _extract_confidence_score
    c_parsed,        \* the value float(match.group(1)) produced, if any
    c_score,         \* the value returned
    \* ---- VerificationAgent._compare_facts
    v_facts,         \* the facts passed in
    v_truth,         \* the ground-truth mapping passed in
    v_pc,            \* position inside _compare_facts
    v_prompt,        \* the values formatted into the prompt
    v_llm,           \* what the completion call did
    v_result,        \* the value returned
    v_raised,        \* TRUE when an exception escaped _compare_facts
    \* ---- VerificationAgent._extract_facts_from_subgraph
    f_subgraph,      \* the subgraph passed to _extract_facts_from_subgraph
    f_pc,            \* position inside _extract_facts_from_subgraph
    f_facts,         \* the list of facts returned
    \* ---- LineageTracker.find_path_between_entities
    p_driver,        \* the driver of the tracker's Neo4jConnection
    p_start,         \* start_entity
    p_end,           \* end_entity
    p_depth,         \* max_depth
    p_pc,            \* position inside find_path_between_entities
    p_store,         \* what the store did with the path query
    p_result,        \* the value returned
    p_raised,        \* TRUE when an exception escaped the call
    \* ---- ExtractorAgent.extract_subgraph
    x_max_nodes,     \* max_nodes
    x_store,         \* the graph the store holds (unchanged by extraction)
    x_driver,        \* the driver of the agent's Neo4jConnection
    x_answer,        \* the lines the completion service answers the entity prompt with
    x_pc,            \* position inside extract_subgraph
    x_entities,      \* the entity names identified
    x_idx,           \* how many entities the search loop has processed
    x_matching,      \* matching_nodes
    x_node_ids,      \* the node_ids passed to _get_subgraph_with_relationships
    x_traversal,     \* what the traversal query did
    x_result,        \* the value extract_subgraph returned
    x_raised,        \* TRUE when an exception escaped extract_subgraph
    x_log,           \* the finished calls of extract_subgraph, oldest first
    \* ---- FactCheckingOrchestrator.check_facts
    o_pc,            \* position inside check_facts
    o_truth,         \* the ground truth verify_facts gathered
    o_lookups,       \* external lookups made by this call
    o_compares,      \* fact-comparison completion calls made by this call
    o_result,        \* the value check_facts returned
    o_raised,        \* TRUE when an exception escaped check_facts
    \* ---- LineageTracker.generate_lineage_map
    m_subgraph,      \* the subgraph passed to generate_lineage_map
    m_pc,            \* position inside generate_lineage_map
    m_result,        \* the value returned
    \* ---- Neo4jConnection: connect, close and execute_query
    n_driver,        \* Neo4jConnection.driver: 0 (None) or the number of the handle it holds
    n_handles,       \* the handles GraphDatabase.driver has handed out: open or closed
    n_log,           \* the calls made on the connection, oldest first
    \* ---- DocumentProcessor.chunk_text
    k_text,          \* the text passed to chunk_text (character i is written i)
    k_size,          \* chunk_size
    k_overlap,       \* overlap
    k_start,         \* start
    k_chunks,        \* chunks
    k_pc,            \* position inside chunk_text
    \* ---- IngestionPipeline.ingest_document
    i_doc,           \* what process_document does with the file
    i_extraction,    \* what extract_from_chunks does with the chunks
    i_graph,         \* what build_graph does with the extraction
    i_size,          \* config.chunk_size
    i_overlap,       \* config.chunk_overlap
    i_pc,            \* position inside ingest_document
    i_result,        \* the value ingest_document returned
    i_raised         \* TRUE when an exception escaped ingest_document

qvars == <<driver, max_retries, q_pc, attempt, schema, cypher_query, llm_calls,
           schema_runs, cand_runs, q_log, q_result, q_raised>>

gvars == <<entities, g_pc, g_idx, ground_truth, g_searched, g_last, g_raised>>

cvars == <<c_text, c_pc, c_parsed, c_score>>

vvars == <<v_facts, v_truth, v_pc, v_prompt, v_llm, v_result, v_raised>>

fvars == <<f_subgraph, f_pc, f_facts>>

pvars == <<p_driver, p_start, p_end, p_depth, p_pc, p_store, p_result, p_raised>>

xvars == <<x_max_nodes, x_store, x_driver, x_answer, x_pc, x_entities, x_idx, x_matching,
           x_node_ids,
           x_traversal, x_result, x_raised, x_log>>

ovars == <<o_pc, o_truth, o_lookups, o_compares, o_result, o_raised>>

mvars == <<m_subgraph, m_pc, m_result>>

nvars == <<n_driver, n_handles, n_log>>

kvars == <<k_text, k_size, k_overlap, k_start, k_chunks, k_pc>>

ivars == <<i_doc, i_extraction, i_graph, i_size, i_overlap, i_pc, i_result, i_raised>>

vars == <<qvars, gvars, cvars, vvars, fvars, pvars, xvars, ovars, mvars, nvars, kvars, ivars>>

\* what a step of one component leaves alone: the other components
not_query == <<gvars, cvars, vvars, fvars, pvars, xvars, ovars, mvars, nvars, kvars, ivars>>

not_ground_truth == <<qvars, cvars, vvars, fvars, pvars, xvars, ovars, mvars, nvars, kvars, ivars>>

not_confidence == <<qvars, gvars, vvars, fvars, pvars, xvars, ovars, mvars, nvars, kvars, ivars>>

not_compare == <<qvars, gvars, cvars, fvars, pvars, xvars, ovars, mvars, nvars, kvars, ivars>>

not_facts == <<qvars, gvars, cvars, vvars, pvars, xvars, ovars, mvars, nvars, kvars, ivars>>

not_path == <<qvars, gvars, cvars, vvars, fvars, xvars, ovars, mvars, nvars, kvars, ivars>>

not_extract == <<qvars, gvars, cvars, vvars, fvars, pvars, ovars, mvars, nvars, kvars, ivars>>

not_check == <<qvars, gvars, cvars, vvars, fvars, pvars, xvars, mvars, nvars, kvars, ivars>>

not_map == <<qvars, gvars, cvars, vvars, fvars, pvars, xvars, ovars, nvars, kvars, ivars>>

not_connection == <<qvars, gvars, cvars, vvars, fvars, pvars, xvars, ovars, mvars, kvars, ivars>>

not_chunk == <<qvars, gvars, cvars, vvars, fvars, pvars, xvars, ovars, mvars, nvars, ivars>>

not_ingest == <<qvars, gvars, cvars, vvars, fvars, pvars, xvars, ovars, mvars, nvars, kvars>>

Min(a, b) == IF a <= b THEN a ELSE b

Max(a, b) == IF a >= b THEN a ELSE b

(***************************************************************************)
(* Bounds of the model.                                                    *)
(***************************************************************************)
\* the largest retry bound N (config.max_retries) explored
MaxRetries == 3

\* the longest entity-name list handed to _get_ground_truth
MaxEntities == 6

\* the longest response text (in tokens) handed to _extract_confidence_score
MaxTextLen == 4

\* the longest completion response (in tokens) handed back to _compare_facts
MaxResponseLen == 2

\* the longest fact list handed to _compare_facts
MaxFacts == 11

\* the longest relationship list of a subgraph handed to the fact extractor
MaxRels == 2

\* the longest node list of a subgraph handed to the fact extractor
MaxNodes == 1

\* the longest path (in relationships) the store returns for a path query
MaxPathLen == 2

\* the most nodes of a store that holds relationships
MaxStoreNodes == 3

\* the most lines of a completion response to the entity prompt
MaxLines == 2

\* the longest relationship list of a subgraph handed to generate_lineage_map
MaxMapRels == 6

\* the longest sequence of calls made on one Neo4jConnection
MaxCalls == 4

\* the longest text handed to chunk_text
MaxChunkText == 4

\* the largest chunk_size
MaxChunkSize == 3

(***************************************************************************)
(* The store (Neo4jConnection) as seen by its callers.                     *)
(***************************************************************************)
None == "None"

NoRows == <<>>

\* record sets a query can return: none, one row, two rows
RowSets == {NoRows, <<"r1">>, <<"r1", "r2">>}

StoreErrors == {"CypherSyntaxError", "ServiceUnavailable"}

\* what the driver does with one execute_query call:
\*   connect_fail : GraphDatabase.driver raised inside connect()
\*   error        : session.run raised
\*   rows         : the query ran and returned data
StoreOutcomes ==
    {[kind |-> "connect_fail", err |-> "ServiceUnavailable", data |-> NoRows]}
    \cup {[kind |-> "error", err |-> e, data |-> NoRows] : e \in StoreErrors}
    \cup {[kind |-> "rows", err |-> None, data |-> d] : d \in RowSets}

\* connect() is only called while no driver exists
OutcomePossible(d, o) == o.kind = "connect_fail" => d = "none"

\* Neo4jConnection.execute_query: connects lazily, then runs the query.
\* Returns the driver afterwards, whether session.run was reached, whether
\* the call raised, the error text and the rows.
execute_query(d, o) ==
    IF d = "none" /\ o.kind = "connect_fail"
    THEN [driver |-> "none", ran |-> FALSE, raised |-> TRUE,
          err |-> o.err, data |-> NoRows]
    ELSE [driver |-> "open", ran |-> TRUE, raised |-> (o.kind = "error"),
          err |-> (IF o.kind = "error" THEN o.err ELSE None),
          data |-> (IF o.kind = "rows" THEN o.data ELSE NoRows)]

(***************************************************************************)
(* TextToCypherConverter                                                   *)
(***************************************************************************)
FallbackSchema == "Node Labels: Entity, Document / Relationship Types: EXTRACTED_FROM"

LiveSchema == "Node Labels: <labels> / Relationship Types: <relationships>"

\* the completion service's raw answers, as token sequences: FENCE_CYPHER is the
\* opening code-fence marker with its language tag, FENCE the bare marker,
\* " " is whitespace, Q1 and Q2 are query texts
LLMResponses ==
    { <<>>,
      <<" ">>,
      <<"FENCE_CYPHER", "FENCE">>,
      <<"Q1">>,
      <<" ", "Q2", " ">>,
      <<"FENCE_CYPHER", " ", "Q1", " ", "FENCE">>,
      <<"FENCE", "Q2", "FENCE">> }

IsSpace(t) == t = " "

RECURSIVE lstrip(_)
lstrip(s) == IF s # <<>> /\ IsSpace(Head(s)) THEN lstrip(Tail(s)) ELSE s

RECURSIVE rstrip(_)
rstrip(s) ==
    IF s # <<>> /\ IsSpace(s[Len(s)]) THEN rstrip(SubSeq(s, 1, Len(s) - 1)) ELSE s

\* str.strip()
strip(s) == rstrip(lstrip(s))

\* str.replace(marker, "")
remove(s, marker) == SelectSeq(s, LAMBDA t : t # marker)

\* _generate_cypher, lines 129-132: strip, drop the fence markers, strip
clean_response(content) ==
    strip(remove(remove(strip(content), "FENCE_CYPHER"), "FENCE"))

\* _generate_cypher: the try/except around the completion call turns every
\* exception into the return value None (escaped: the exception left the method)
generate_cypher(raised, content) ==
    IF raised
    THEN [escaped |-> FALSE, value |-> None]
    ELSE [escaped |-> FALSE, value |-> clean_response(content)]

\* a variant that skips the attempt only when the completion call raised
NoCandidate_OnlyNone(c) == c = None

\* if not cypher_query: None and the empty string are both falsy
NoCandidate(c) == c = None \/ c = <<>>

\* _execute_cypher: the dict it returns for one store outcome; the try/except
\* turns every exception of connect() and execute_query() into success False
\* (escaped: the exception left the method)
execute_cypher(d, o) ==
    LET r == execute_query(d, o)
    IN  IF r.raised
        THEN [escaped |-> FALSE, success |-> FALSE, error |-> r.err, data |-> NoRows]
        ELSE [escaped |-> FALSE, success |-> TRUE, error |-> None, data |-> r.data]

\* a variant that returns as soon as the execution raised nothing
AttemptSucceeds_IgnoresData(result) == result.success

\* lines 46-47: if result["success"]: if result["data"]:
AttemptSucceeds(result) == result.success /\ result.data # NoRows

\* a variant whose loop runs one attempt too many
LoopHasAttempt_OffByOne(a, n) == a <= n

\* for attempt in range(self.max_retries): is there an attempt number a
LoopHasAttempt(a, n) == a < n

AfterAttempt(a, n) == IF LoopHasAttempt(a, n) THEN "generate" ELSE "exhausted"

NoResult == [success |-> "unset"]

\* a variant that reports the zero-based loop index
SuccessResult_ZeroBased(cy, data, a) ==
    [success |-> TRUE, cypher |-> cy, data |-> data, attempts |-> a,
     error |-> None]

\* lines 49-55
SuccessResult(cy, data, a) ==
    [success |-> TRUE, cypher |-> cy, data |-> data, attempts |-> a + 1,
     error |-> None]

GenericError == "Failed to generate valid Cypher query after all retries"

\* a variant that reports the last value of the loop variable
FailureResult_LoopVariable(n) ==
    [success |-> FALSE, cypher |-> None, data |-> NoRows, attempts |-> n - 1,
     error |-> GenericError]

\* lines 66-71
FailureResult(n) ==
    [success |-> FALSE, cypher |-> None, data |-> NoRows, attempts |-> n,
     error |-> GenericError]

QInit ==
    /\ driver \in {"none", "open"}
    /\ max_retries \in 0..MaxRetries
    /\ q_pc = "call"
    /\ attempt = 0
    /\ schema = None
    /\ cypher_query = None
    /\ llm_calls = 0
    /\ schema_runs = 0
    /\ cand_runs = 0
    /\ q_log = <<>>
    /\ q_result = NoResult
    /\ q_raised = FALSE

\* the state of the converter while another component runs
QIdle ==
    /\ driver = "none"
    /\ max_retries = 0
    /\ q_pc = "idle"
    /\ attempt = 0
    /\ schema = None
    /\ cypher_query = None
    /\ llm_calls = 0
    /\ schema_runs = 0
    /\ cand_runs = 0
    /\ q_log = <<>>
    /\ q_result = NoResult
    /\ q_raised = FALSE

\* query() is entered; _get_graph_schema runs its first store query
\* (db.labels).  An exception is caught and the fallback schema is used.
SchemaLabels ==
    /\ q_pc = "call"
    /\ \E o \in StoreOutcomes :
        /\ OutcomePossible(driver, o)
        /\ LET r == execute_query(driver, o)
           IN  /\ driver' = r.driver
               /\ schema_runs' = schema_runs + (IF r.ran THEN 1 ELSE 0)
               /\ IF r.raised
                  THEN /\ schema' = FallbackSchema
                       /\ q_pc' = AfterAttempt(0, max_retries)
                  ELSE /\ schema' = schema
                       /\ q_pc' = "schema_rels"
    /\ UNCHANGED <<max_retries, attempt, cypher_query, llm_calls, cand_runs,
                   q_log, q_result, q_raised>>
    /\ UNCHANGED not_query

\* _get_graph_schema runs its second store query (db.relationshipTypes)
SchemaRels ==
    /\ q_pc = "schema_rels"
    /\ \E o \in StoreOutcomes :
        /\ OutcomePossible(driver, o)
        /\ LET r == execute_query(driver, o)
           IN  /\ driver' = r.driver
               /\ schema_runs' = schema_runs + (IF r.ran THEN 1 ELSE 0)
               /\ schema' = IF r.raised THEN FallbackSchema ELSE LiveSchema
    /\ q_pc' = AfterAttempt(0, max_retries)
    /\ UNCHANGED <<max_retries, attempt, cypher_query, llm_calls, cand_runs,
                   q_log, q_result, q_raised>>
    /\ UNCHANGED not_query

\* one attempt's _generate_cypher call: the completion service raises or
\* answers; no candidate means continue
Generate ==
    /\ q_pc = "generate"
    /\ llm_calls' = llm_calls + 1
    /\ \E raised \in BOOLEAN : \E content \in LLMResponses :
        /\ raised => content = <<>>
        /\ LET g == generate_cypher(raised, content)
               c == g.value
           IN  /\ cypher_query' = c
               /\ q_raised' = g.escaped
               /\ IF g.escaped
                  THEN /\ q_log' = q_log
                       /\ attempt' = attempt
                       /\ q_pc' = "done"
                  ELSE
                  IF NoCandidate(c)
                  THEN /\ q_log' = Append(q_log,
                              [attempt |-> attempt + 1,
                               gen |-> (IF raised THEN "raised" ELSE "empty"),
                               cypher |-> c, ran |-> FALSE, exec |-> "none",
                               error |-> None, data |-> NoRows,
                               llm_before |-> llm_calls + 1,
                               runs_before |-> cand_runs])
                       /\ attempt' = attempt + 1
                       /\ q_pc' = AfterAttempt(attempt + 1, max_retries)
                  ELSE /\ q_log' = q_log
                       /\ attempt' = attempt
                       /\ q_pc' = "execute"
    /\ UNCHANGED <<driver, max_retries, schema, schema_runs, cand_runs,
                   q_result>>
    /\ UNCHANGED not_query

\* one attempt's _execute_cypher call and the check of its result
Execute ==
    /\ q_pc = "execute"
    /\ \E o \in StoreOutcomes :
        /\ OutcomePossible(driver, o)
        /\ LET r == execute_query(driver, o)
               result == execute_cypher(driver, o)
               runs == cand_runs + (IF r.ran THEN 1 ELSE 0)
           IN  /\ driver' = r.driver
               /\ cand_runs' = runs
               /\ q_log' = Append(q_log,
                      [attempt |-> attempt + 1, gen |-> "ok",
                       cypher |-> cypher_query, ran |-> r.ran,
                       exec |-> (IF r.raised THEN "error" ELSE "rows"),
                       error |-> r.err, data |-> r.data,
                       llm_before |-> llm_calls, runs_before |-> runs])
               /\ q_raised' = result.escaped
               /\ IF result.escaped
                  THEN /\ q_result' = q_result
                       /\ attempt' = attempt
                       /\ q_pc' = "done"
                  ELSE
                  IF AttemptSucceeds(result)
                  THEN /\ q_result' = SuccessResult(cypher_query, result.data, attempt)
                       /\ attempt' = attempt
                       /\ q_pc' = "done"
                  ELSE /\ q_result' = q_result
                       /\ attempt' = attempt + 1
                       /\ q_pc' = AfterAttempt(attempt + 1, max_retries)
    /\ UNCHANGED <<max_retries, schema, cypher_query, llm_calls, schema_runs>>
    /\ UNCHANGED not_query

\* the loop ended without a return: lines 65-71
ReturnFailure ==
    /\ q_pc = "exhausted"
    /\ q_result' = FailureResult(max_retries)
    /\ q_pc' = "done"
    /\ UNCHANGED <<driver, max_retries, attempt, schema, cypher_query, llm_calls,
                   schema_runs, cand_runs, q_log, q_raised>>
    /\ UNCHANGED not_query

QNext == SchemaLabels \/ SchemaRels \/ Generate \/ Execute \/ ReturnFailure

(***************************************************************************)
(* VerificationAgent._get_ground_truth                                     *)
(***************************************************************************)
\* entities[:5]
GroundTruthLimit == 5

\* page.summary[:500]
SummaryLimit == 500

EntityNames ==
    <<"Microsoft", "LinkedIn", "GitHub", "OpenAI", "Skype", "Azure", "Xbox", "Bing">>

\* the lists of entity names: position i holds a name of its own or repeats
\* the first name (the caller does not deduplicate the names)
EntityLists ==
    UNION { { s \in [1..n -> {EntityNames[i] : i \in 1..n}] :
                \A i \in 1..n : s[i] \in {EntityNames[i], EntityNames[1]} }
            : n \in 0..MaxEntities }

\* a text of n characters
Text(n) == [i \in 1..n |-> "x"]

\* the summaries a page can carry: short, exactly at the limit, beyond it
PageSummaries == {Text(3), Text(SummaryLimit), Text(SummaryLimit + 1)}

LookupErrors == {"ConnectionError", "PageError"}

\* what the external source does with one name:
\*   search_raised : wikipedia.search raised
\*   no_match      : wikipedia.search returned an empty list
\*   page_raised   : wikipedia.page raised (PageError, DisambiguationError)
\*   page          : the page was fetched
LookupOutcomes ==
    {[kind |-> "search_raised", err |-> "ConnectionError", summary |-> <<>>],
     [kind |-> "no_match", err |-> None, summary |-> <<>>],
     [kind |-> "page_raised", err |-> "PageError", summary |-> <<>>]}
    \cup {[kind |-> "page", err |-> None, summary |-> t] : t \in PageSummaries}

Raised(o) == o.kind \in {"search_raised", "page_raised"}

EmptyMap == [k \in {} |-> None]

\* ground_truth[k] = v
Put(m, k, v) == [x \in DOMAIN m \cup {k} |-> IF x = k THEN v ELSE m[x]]

\* s[:n]
Prefix(s, n) == SubSeq(s, 1, Min(Len(s), n))

\* a variant that walks the whole list
FirstEntities_NoLimit(es) == es

\* line 72: entities[:5]
FirstEntities(es) == Prefix(es, GroundTruthLimit)

\* lines 79-83
PageRecord(title, summary) ==
    [title |-> title, summary |-> Prefix(summary, SummaryLimit),
     url |-> <<"https://en.wikipedia.org/wiki/", title>>]

\* a variant whose try block encloses the loop: the first exception ends it
record_failure_Propagates(gt, entity, err) ==
    [escaped |-> TRUE, truth |-> gt]

\* lines 85-87: the except clause inside the loop body
record_failure(gt, entity, err) ==
    [escaped |-> FALSE, truth |-> Put(gt, entity, [error |-> err])]

\* lines 73-87: one pass of the loop body for one name
lookup(gt, entity, o) ==
    IF Raised(o) THEN record_failure(gt, entity, o.err)
    ELSE IF o.kind = "no_match" THEN [escaped |-> FALSE, truth |-> gt]
    ELSE [escaped |-> FALSE, truth |-> Put(gt, entity, PageRecord(entity, o.summary))]

NoLookup == [kind |-> "none", err |-> None, summary |-> <<>>]

GInit ==
    /\ entities \in EntityLists
    /\ g_pc = "loop"
    /\ g_idx = 0
    /\ ground_truth = EmptyMap
    /\ g_searched = <<>>
    /\ g_last = NoLookup
    /\ g_raised = FALSE

\* the state of the resolver while another component runs
GIdle ==
    /\ entities = <<>>
    /\ g_pc = "idle"
    /\ g_idx = 0
    /\ ground_truth = EmptyMap
    /\ g_searched = <<>>
    /\ g_last = NoLookup
    /\ g_raised = FALSE

\* one iteration of for entity in entities[:5]
LookupEntity ==
    /\ g_pc = "loop"
    /\ g_idx < Len(FirstEntities(entities))
    /\ LET entity == FirstEntities(entities)[g_idx + 1]
       IN  /\ g_searched' = Append(g_searched, entity)
           /\ \E o \in LookupOutcomes :
                LET r == lookup(ground_truth, entity, o)
                IN  /\ g_last' = o
                    /\ ground_truth' = r.truth
                    /\ g_raised' = r.escaped
                    /\ g_pc' = IF r.escaped THEN "done" ELSE "loop"
    /\ g_idx' = g_idx + 1
    /\ UNCHANGED entities
    /\ UNCHANGED not_ground_truth

\* line 89: return ground_truth
ReturnGroundTruth ==
    /\ g_pc = "loop"
    /\ g_idx = Len(FirstEntities(entities))
    /\ g_pc' = "done"
    /\ UNCHANGED <<entities, g_idx, ground_truth, g_searched, g_last, g_raised>>
    /\ UNCHANGED not_ground_truth

GNext == LookupEntity \/ ReturnGroundTruth

(***************************************************************************)
(* VerificationAgent._extract_confidence_score                             *)
(*                                                                         *)
(* A text is a sequence of tokens: the words "confidence" (also written    *)
(* with a capital) and "score", the separators ":" and " ", digits and the *)
(* decimal point.  Numbers are exact decimals num / den.                   *)
(***************************************************************************)
Digits == {"0", "1", "8"}

Alphabet == {"Confidence", "confidence", "score", ":", " ", "."} \cup Digits

Texts == UNION { [1..n -> Alphabet] : n \in 0..MaxTextLen }

\* str.lower()
LowerToken(c) == IF c = "Confidence" THEN "confidence" ELSE c

lower(text) == [i \in 1..Len(text) |-> LowerToken(text[i])]

\* the character class [0-9.]
IsNum(c) == c \in Digits \cup {"."}

\* the character class [:\s]
IsSep(c) == c \in {":", " "}

\* the character class \s
IsWs(c) == c = " "

\* membership in a character class, by the class's name
InClass(c, class) ==
    CASE class = "num" -> IsNum(c)
      [] class = "sep" -> IsSep(c)
      [] class = "ws" -> IsWs(c)

\* the end of the longest run of characters of the class that starts at i
\* (i - 1 when t[i] is not of the class): what a greedy P* consumes
RunEnd(t, i, class) ==
    CHOOSE j \in (i - 1)..Len(t) :
        /\ \A k \in i..j : InClass(t[k], class)
        /\ j = Len(t) \/ ~InClass(t[j + 1], class)

NoMatch == [matched |-> FALSE, group |-> <<>>]

\* re.search of  word[:\s]+([0-9.]+) : the leftmost occurrence of the word that
\* is followed by at least one separator and then at least one [0-9.]; both
\* runs are greedy and the classes are disjoint, so group 1 is the whole run
SearchWordThenNumber(t, word) ==
    LET starts == { i \in 1..Len(t) :
                      /\ t[i] = word
                      /\ RunEnd(t, i + 1, "sep") >= i + 1
                      /\ RunEnd(t, RunEnd(t, i + 1, "sep") + 1, "num")
                             >= RunEnd(t, i + 1, "sep") + 1 }
    IN  IF starts = {} THEN NoMatch
        ELSE LET i == CHOOSE x \in starts : \A y \in starts : x <= y
                 a == RunEnd(t, i + 1, "sep") + 1
             IN  [matched |-> TRUE, group |-> SubSeq(t, a, RunEnd(t, a, "num"))]

\* re.search of  ([0-9.]+)\s*confidence : the leftmost position from which a
\* greedy run of [0-9.], then optional whitespace, reaches the word
SearchNumberThenWord(t, word) ==
    LET starts == { i \in 1..Len(t) :
                      /\ IsNum(t[i])
                      /\ RunEnd(t, RunEnd(t, i, "num") + 1, "ws") < Len(t)
                      /\ t[RunEnd(t, RunEnd(t, i, "num") + 1, "ws") + 1] = word }
    IN  IF starts = {} THEN NoMatch
        ELSE LET i == CHOOSE x \in starts : \A y \in starts : x <= y
             IN  [matched |-> TRUE, group |-> SubSeq(t, i, RunEnd(t, i, "num"))]

\* lines 156-160: the three patterns, in order
NumPatterns == 3

Search(p, t) ==
    CASE p = 1 -> SearchWordThenNumber(t, "confidence")
      [] p = 2 -> SearchNumberThenWord(t, "confidence")
      [] p = 3 -> SearchWordThenNumber(t, "score")

\* float(): the text must hold at least one digit and at most one point
Parseable(g) ==
    /\ \E i \in 1..Len(g) : g[i] \in Digits
    /\ Cardinality({i \in 1..Len(g) : g[i] = "."}) <= 1

DigitValue(c) == CASE c = "0" -> 0 [] c = "1" -> 1 [] c = "8" -> 8

RECURSIVE DigitsToInt(_)
DigitsToInt(ds) ==
    IF ds = <<>> THEN 0
    ELSE 10 * DigitsToInt(SubSeq(ds, 1, Len(ds) - 1)) + DigitValue(ds[Len(ds)])

RECURSIVE Pow10(_)
Pow10(n) == IF n = 0 THEN 1 ELSE 10 * Pow10(n - 1)

\* float() of a parseable text, as the exact decimal num / den
float(g) ==
    LET ds == SelectSeq(g, LAMBDA c : c \in Digits)
        point == { i \in 1..Len(g) : g[i] = "." }
        decimals == IF point = {} THEN 0
                    ELSE Len(g) - (CHOOSE i \in point : TRUE)
    IN  [num |-> DigitsToInt(ds), den |-> Pow10(decimals)]

Number(n, d) == [num |-> n, den |-> d]

\* a < b, a <= b and a = b on decimals
Less(a, b) == a.num * b.den < b.num * a.den

LessEq(a, b) == a.num * b.den <= b.num * a.den

Same(a, b) == a.num * b.den = b.num * a.den

\* a variant that also rescales the value 1
IsPercentage_Inclusive(score) == LessEq(Number(1, 1), score)

\* line 168: if score > 1
IsPercentage(score) == Less(Number(1, 1), score)

\* lines 168-170: rescale a percentage, clamp into [0, 1]
normalize(score) ==
    LET scaled == IF IsPercentage(score)
                  THEN Number(score.num, score.den * 100)
                  ELSE score
        lower_clamped == IF Less(scaled, Number(0, 1)) THEN Number(0, 1) ELSE scaled
    IN  IF Less(Number(1, 1), lower_clamped) THEN Number(1, 1) ELSE lower_clamped

\* line 175
DefaultConfidence == Number(5, 10)

NotParsed == [num |-> -1, den |-> 1]

RECURSIVE try_patterns(_, _)

\* a variant in which the first matching pattern decides: unparseable text
\* ends the search with the default
after_value_error_Default(t, p) ==
    [score |-> DefaultConfidence, parsed |-> NotParsed]

\* lines 171-172: except ValueError: continue
after_value_error(t, p) == try_patterns(t, p + 1)

\* lines 162-175: the loop over the patterns from pattern p on
try_patterns(t, p) ==
    IF p > NumPatterns THEN [score |-> DefaultConfidence, parsed |-> NotParsed]
    ELSE LET m == Search(p, t)
         IN  IF ~m.matched THEN try_patterns(t, p + 1)
             ELSE IF Parseable(m.group)
                  THEN [score |-> normalize(float(m.group)),
                        parsed |-> float(m.group)]
                  ELSE after_value_error(t, p)

extract_confidence_score(text) == try_patterns(lower(text), 1)

CInit ==
    /\ c_text \in Texts
    /\ c_pc = "call"
    /\ c_parsed = NotParsed
    /\ c_score = NotParsed

\* the state of the parser while another component runs
CIdle ==
    /\ c_text = <<>>
    /\ c_pc = "idle"
    /\ c_parsed = NotParsed
    /\ c_score = NotParsed

ExtractConfidenceScore ==
    /\ c_pc = "call"
    /\ c_pc' = "done"
    /\ c_score' = extract_confidence_score(c_text).score
    /\ c_parsed' = extract_confidence_score(c_text).parsed
    /\ UNCHANGED c_text
    /\ UNCHANGED not_confidence

CNext == ExtractConfidenceScore

(***************************************************************************)
(* VerificationAgent._compare_facts                                        *)
(***************************************************************************)
\* facts[:10]
FactLimit == 10

\* the fact lists: n facts, told apart by their position
FactLists == { [i \in 1..n |-> <<"fact", i>>] : n \in 0..MaxFacts }

\* ground-truth mappings as _get_ground_truth builds them
TruthMaps ==
    { EmptyMap,
      Put(EmptyMap, "Microsoft", PageRecord("Microsoft", Text(3))),
      Put(EmptyMap, "Microsoft", [error |-> "PageError"]),
      Put(Put(EmptyMap, "Microsoft", PageRecord("Microsoft", Text(3))),
          "LinkedIn", [error |-> "ConnectionError"]) }

Responses == UNION { [1..n -> Alphabet] : n \in 0..MaxResponseLen }

CompletionErrors == {"RateLimitError", "APITimeoutError"}

\* what the completion service does with the comparison prompt
CompletionOutcomes ==
    {[raised |-> TRUE, err |-> e, content |-> <<>>] : e \in CompletionErrors}
    \cup {[raised |-> FALSE, err |-> None, content |-> r] : r \in Responses}

\* lines 95-98: the names whose record has a summary contribute to gt_text
SummaryNames(gt) == { k \in DOMAIN gt : "summary" \in DOMAIN gt[k] }

\* lines 125-129: the values placed in the prompt
prompt_values(facts, gt) ==
    [facts |-> Prefix(facts, FactLimit),
     ground_truth |-> IF SummaryNames(gt) = {}
                      THEN "No ground truth available"
                      ELSE SummaryNames(gt)]

\* a variant that answers a failed completion with the neutral default
error_result_Neutral(err) ==
    [analysis |-> <<"Error during verification: ", err>>,
     confidence |-> DefaultConfidence,
     facts_checked |-> 0,
     ground_truth_sources |-> 0]

\* lines 144-149
error_result(err) ==
    [analysis |-> <<"Error during verification: ", err>>,
     confidence |-> Number(0, 1),
     facts_checked |-> 0,
     ground_truth_sources |-> 0]

\* lines 124-149: the try block and its except clause
compare_facts(facts, gt, o) ==
    IF o.raised
    THEN [escaped |-> FALSE, result |-> error_result(o.err)]
    ELSE [escaped |-> FALSE,
          result |-> [analysis |-> o.content,
                      confidence |-> extract_confidence_score(o.content).score,
                      facts_checked |-> Len(facts),
                      ground_truth_sources |-> Cardinality(DOMAIN gt)]]

NoCall == [raised |-> FALSE, err |-> None, content |-> "not called"]

NoVerdict == [analysis |-> None]

VInit ==
    /\ v_facts \in FactLists
    /\ v_truth \in TruthMaps
    /\ v_pc = "call"
    /\ v_prompt = None
    /\ v_llm = NoCall
    /\ v_result = NoVerdict
    /\ v_raised = FALSE

\* the state of the comparison while another component runs
VIdle ==
    /\ v_facts = <<>>
    /\ v_truth = EmptyMap
    /\ v_pc = "idle"
    /\ v_prompt = None
    /\ v_llm = NoCall
    /\ v_result = NoVerdict
    /\ v_raised = FALSE

\* _compare_facts: build the prompt, invoke the completion service, return
CompareFacts ==
    /\ v_pc = "call"
    /\ v_prompt' = prompt_values(v_facts, v_truth)
    /\ \E o \in CompletionOutcomes :
        LET r == compare_facts(v_facts, v_truth, o)
        IN  /\ v_llm' = o
            /\ v_raised' = r.escaped
            /\ v_result' = IF r.escaped THEN v_result ELSE r.result
    /\ v_pc' = "done"
    /\ UNCHANGED <<v_facts, v_truth>>
    /\ UNCHANGED not_compare

VNext == CompareFacts

(***************************************************************************)
(* VerificationAgent._extract_facts_from_subgraph                          *)
(*                                                                         *)
(* A relationship or node of a subgraph is None, a plain mapping (a dict,  *)
(* which has no __dict__ attribute) or an object (whose attributes are     *)
(* its __dict__).  A fact is the sequence of the pieces its f-string joins *)
(* with single spaces.                                                     *)
(***************************************************************************)
\* a key the mapping, or an attribute the object, does not have
Missing == "<missing>"

Reprs == {"mapping", "object"}

NoneValue == [repr |-> "none", start |-> Missing, type |-> Missing, end |-> Missing]

\* the relationships a subgraph can carry
RelValues ==
    {NoneValue} \cup
    [repr : Reprs, start : {"A", Missing}, type : {"OWNS", Missing},
     end : {"B", Missing}]

NoneNode == [repr |-> "none", name |-> Missing, type |-> Missing]

\* the nodes a subgraph can carry; name and type are entries of _properties
NodeValues ==
    {NoneNode} \cup
    [repr : Reprs, name : {"A", Missing}, type : {"Company", Missing}]

SeqsUpTo(S, n) == UNION {[1..k -> S] : k \in 0..n}

\* dict.get(key, default)
get(value, default) == IF value = Missing THEN default ELSE value

\* bool(x): None and the empty mapping are false
truthy_rel(rel) ==
    /\ rel.repr # "none"
    /\ ~(rel.repr = "mapping" /\ rel.start = Missing /\ rel.type = Missing
         /\ rel.end = Missing)

truthy_node(node) ==
    /\ node.repr # "none"
    /\ ~(node.repr = "mapping" /\ node.name = Missing /\ node.type = Missing)

\* hasattr(x, '__dict__'): true of an object, false of a dict
has_dict(x) == x.repr = "object"

\* line 51: the f-string of a relationship
relationship_fact(rel) ==
    <<get(rel.start, "Entity"), get(rel.type, "RELATED_TO"), get(rel.end, "Entity")>>

\* line 60: the f-string of a node
node_fact(node) == <<node.name, "is a", node.type>>

RECURSIVE relationship_facts(_)
\* lines 48-52: the loop over the relationships
relationship_facts(rels) ==
    IF rels = <<>> THEN <<>>
    ELSE LET rel == Head(rels)
         IN  (IF truthy_rel(rel) /\ has_dict(rel)
              THEN <<relationship_fact(rel)>> ELSE <<>>)
             \o relationship_facts(Tail(rels))

RECURSIVE node_facts(_)
\* lines 55-61: the loop over the nodes
node_facts(nodes) ==
    IF nodes = <<>> THEN <<>>
    ELSE LET node == Head(nodes)
         IN  (IF truthy_node(node) /\ has_dict(node)
                 /\ node.name # Missing /\ node.type # Missing
              THEN <<node_fact(node)>> ELSE <<>>)
             \o node_facts(Tail(nodes))

\* lines 44-63
extract_facts_from_subgraph(subgraph) ==
    relationship_facts(subgraph.relationships) \o node_facts(subgraph.nodes)

FInit ==
    /\ f_subgraph \in [relationships : SeqsUpTo(RelValues, MaxRels),
                       nodes : SeqsUpTo(NodeValues, MaxNodes)]
    /\ f_pc = "call"
    /\ f_facts = <<>>

FIdle ==
    /\ f_subgraph = [relationships |-> <<>>, nodes |-> <<>>]
    /\ f_pc = "idle"
    /\ f_facts = <<>>

ExtractFacts ==
    /\ f_pc = "call"
    /\ f_facts' = extract_facts_from_subgraph(f_subgraph)
    /\ f_pc' = "done"
    /\ UNCHANGED f_subgraph
    /\ UNCHANGED not_facts

FNext == ExtractFacts

(***************************************************************************)
(* LineageTracker.find_path_between_entities                               *)
(*                                                                         *)
(* A path value is either the driver's path object, which has the          *)
(* attributes nodes and relationships, or the plain list a record's data() *)
(* conversion makes of it, which has neither.  A text is the sequence of   *)
(* its pieces.                                                             *)
(***************************************************************************)
PathNames == {"A", "B"}

PathRelTypes == {"R1", "R2"}

\* the paths of n relationships: n + 1 nodes, each with a name property or
\* without one
PathsOfLength(n) ==
    [repr : {"object", "list"},
     nodes : [1..(n + 1) -> PathNames \cup {Missing}],
     relationships : [1..n -> PathRelTypes]]

PathValues == UNION {PathsOfLength(n) : n \in 0..MaxPathLen}

\* RETURN path, length(path) as path_length LIMIT 1
PathRow(path) == [path |-> path, path_length |-> Len(path.relationships)]

PathRowSets == {NoRows} \cup {<<PathRow(path)>> : path \in PathValues}

PathOutcomes ==
    {[kind |-> "connect_fail", err |-> "ServiceUnavailable", data |-> NoRows]}
    \cup {[kind |-> "error", err |-> e, data |-> NoRows] : e \in StoreErrors}
    \cup {[kind |-> "rows", err |-> None, data |-> d] : d \in PathRowSets}

\* the integers passed as max_depth
Depths == {-1, 0, 5}

\* line 189, 191: node.get("name", f"Node_{i}") with the 0-based index i
node_name(nodes, i) ==
    IF nodes[i + 1] = Missing THEN "Node_" \o ToString(i) ELSE nodes[i + 1]

\* lines 177-194
parse_path(path) ==
    IF path.repr = "object"
    THEN [k \in 1..Len(path.relationships) |->
            [from |-> node_name(path.nodes, k - 1),
             relationship |-> path.relationships[k],
             to |-> node_name(path.nodes, k)]]
    ELSE <<>>

NameText(n) == [kind |-> "name", text |-> n]

\* the piece ->[REL]-> between the two names of a step
LinkText(r) == [kind |-> "link", text |-> r]

\* the piece -> that join puts between two steps
JoinText == [kind |-> "join", text |-> "->"]

PrefixText == [kind |-> "prefix", text |-> "Path:"]

\* line 204: the f-string of one step
step_text(step) ==
    <<NameText(step.from), LinkText(step.relationship), NameText(step.to)>>

RECURSIVE join_steps(_)
\* line 208: " -> ".join(steps)
join_steps(lineage) ==
    IF lineage = <<>> THEN <<>>
    ELSE IF Len(lineage) = 1 THEN step_text(lineage[1])
    ELSE step_text(lineage[1]) \o <<JoinText>> \o join_steps(Tail(lineage))

NoPathInformation == <<[kind |-> "text", text |-> "No path information available"]>>

\* lines 196-208
explain_path(lineage) ==
    IF lineage = <<>> THEN NoPathInformation
    ELSE <<PrefixText>> \o join_steps(lineage)

\* lines 66-69
no_path_result(start, end) ==
    [found |-> FALSE, message |-> <<"No path found between", start, "and", end>>]

\* lines 90-95: the except clause
path_failure_Propagates(err) ==
    [escaped |-> TRUE, result |-> [found |-> FALSE, error |-> err]]

path_failure(err) ==
    [escaped |-> FALSE, result |-> [found |-> FALSE, error |-> err]]

\* lines 71-88
found_result(start, end, row) ==
    LET lineage == parse_path(row.path)
    IN  [found |-> TRUE, start_entity |-> start, end_entity |-> end,
         path_length |-> row.path_length, lineage |-> lineage,
         explanation |-> explain_path(lineage)]

\* lines 49-95; the query text of lines 54-59 is formatted with %d, which
\* takes every integer
find_path_between_entities(start, end, max_depth, d, o) ==
    LET run == execute_query(d, o)
    IN  IF run.raised THEN path_failure(run.err)
        ELSE IF run.data = NoRows
        THEN [escaped |-> FALSE, result |-> no_path_result(start, end)]
        ELSE [escaped |-> FALSE, result |-> found_result(start, end, run.data[1])]

NoStoreCall == [kind |-> "none", err |-> None, data |-> NoRows]

PInit ==
    /\ p_driver \in {"none", "open"}
    /\ p_start \in PathNames
    /\ p_end \in PathNames
    /\ p_depth \in Depths
    /\ p_pc = "call"
    /\ p_store = NoStoreCall
    /\ p_result = NoResult
    /\ p_raised = FALSE

PIdle ==
    /\ p_driver = "none"
    /\ p_start = None
    /\ p_end = None
    /\ p_depth = 5
    /\ p_pc = "idle"
    /\ p_store = NoStoreCall
    /\ p_result = NoResult
    /\ p_raised = FALSE

FindPath ==
    /\ p_pc = "call"
    /\ \E o \in PathOutcomes :
        /\ OutcomePossible(p_driver, o)
        /\ LET r == find_path_between_entities(p_start, p_end, p_depth, p_driver, o)
           IN  /\ p_store' = o
               /\ p_driver' = execute_query(p_driver, o).driver
               /\ p_raised' = r.escaped
               /\ p_result' = IF r.escaped THEN p_result ELSE r.result
    /\ p_pc' = "done"
    /\ UNCHANGED <<p_start, p_end, p_depth>>
    /\ UNCHANGED not_path

PNext == FindPath

(***************************************************************************)
(* The graph the store holds, and the two queries of the extractor.        *)
(*                                                                         *)
(* Node k of a store has the store identifier k - 1 (identifiers start at  *)
(* 0).  A node carries its identifier as the property id when the store's  *)
(* ids flag is set.  Relationship i joins the nodes i and i + 1.           *)
(***************************************************************************)
NodeNames == {"A", "AB"}

\* name CONTAINS value
Contains(name, value) ==
    \/ name = value
    \/ name = "AB" /\ value \in {"A", "B"}

\* the stores with relationships: at most MaxStoreNodes nodes in a chain
ChainStores ==
    UNION {[names : [1..n -> NodeNames],
            links : SUBSET (1..(n - 1)),
            ids : BOOLEAN] : n \in 0..MaxStoreNodes}

\* extractor_agent.py line 39: limit=5
SearchLimit == 5

\* a store in which more nodes than the search limit have the same name
CrowdedStore ==
    [names |-> [k \in 1..(SearchLimit + 1) |-> "A"], links |-> {}, ids |-> TRUE]

Stores == ChainStores \cup {CrowdedStore}

StoreIds(store) == {k - 1 : k \in DOMAIN store.names}

\* the node of a store as a record's data() returns it: its properties
\* (has_id tells whether id is one of them)
NodeProperties(store, sid) ==
    [name |-> store.names[sid + 1], has_id |-> store.ids,
     id |-> IF store.ids THEN sid ELSE -1]

\* the node as an entry of a subgraph; sid is the identity the store gives it
NodeEntry(store, sid) == [sid |-> sid, name |-> store.names[sid + 1]]

RelEntry(store, i) == [rid |-> i, start |-> i - 1, type |-> "R", end |-> i]

\* the elements of a set of integers in ascending order
RECURSIVE Ascending(_)
Ascending(S) ==
    IF S = {} THEN <<>>
    ELSE LET m == CHOOSE x \in S : \A y \in S : x <= y
         IN  <<m>> \o Ascending(S \ {m})

\* neo4j_manager.py lines 85-101: MATCH (n) WHERE n.name CONTAINS $value
\* RETURN n LIMIT $limit.  Without ORDER BY the store keeps any limit of the
\* matching nodes; the rows are listed by ascending identifier.
SearchRows(store, value, limit) ==
    LET matches == {sid \in StoreIds(store) : Contains(store.names[sid + 1], value)}
        kept    == {S \in SUBSET matches :
                        Cardinality(S) = Min(limit, Cardinality(matches))}
    IN  {[k \in 1..Cardinality(S) |-> [n |-> NodeProperties(store, Ascending(S)[k])]]
         : S \in kept}

\* the relationships that touch one of the seeds
SeedLinks(store, seeds) == {i \in store.links : (i - 1) \in seeds \/ i \in seeds}

\* extractor_agent.py lines 86-95: MATCH (n:Entity) WHERE id(n) IN $node_ids
\* OPTIONAL MATCH (n)-[r]-(connected) RETURN collect(DISTINCT n),
\* collect(DISTINCT connected), collect(DISTINCT r): always one row, each
\* list free of duplicates and of nulls, listed by ascending identifier
TraversalRow(store, node_ids) ==
    LET seeds == {sid \in StoreIds(store) : \E k \in DOMAIN node_ids : node_ids[k] = sid}
        links == SeedLinks(store, seeds)
        connected == {i - 1 : i \in {l \in links : l \in seeds}}
                     \cup {i : i \in {l \in links : (l - 1) \in seeds}}
        seedseq == Ascending(seeds)
        connseq == Ascending(connected)
        linkseq == Ascending(links)
    IN  [nodes |-> [k \in DOMAIN seedseq |-> NodeEntry(store, seedseq[k])],
         connected_nodes |-> [k \in DOMAIN connseq |-> NodeEntry(store, connseq[k])],
         relationships |-> [k \in DOMAIN linkseq |-> RelEntry(store, linkseq[k])]]

(***************************************************************************)
(* ExtractorAgent.extract_subgraph                                         *)
(***************************************************************************)
\* a line of the completion response: its text, and whether blanks surround it
LineValues ==
    [text : {"A", "B"}, padded : {FALSE}]
    \cup {[text |-> "B", padded |-> TRUE], [text |-> "", padded |-> TRUE]}

Answers == SeqsUpTo(LineValues, MaxLines)

\* str.strip of a line
strip_line(line) == line.text

RECURSIVE stripped_lines(_)
\* line 77: the stripped lines that are not blank
stripped_lines(lines) ==
    IF lines = <<>> THEN <<>>
    ELSE (IF strip_line(Head(lines)) # "" THEN <<strip_line(Head(lines))>> ELSE <<>>)
         \o stripped_lines(Tail(lines))

\* lines 65-82: an exception of the completion call gives the empty list
identify_entities_from_query(raised, lines) ==
    IF raised THEN <<>> ELSE stripped_lines(lines)

\* lines 36-41: the candidates of one entity
candidate_rows_LimitOne(store, entity) == SearchRows(store, entity, 1)

candidate_rows(store, entity) == SearchRows(store, entity, SearchLimit)

RECURSIVE seed_ids(_)
\* lines 50-51: the id property of every candidate that has one and whose
\* id is truthy (None and 0 are not)
seed_ids(matching) ==
    IF matching = <<>> THEN <<>>
    ELSE LET n == Head(matching).n
         IN  (IF n.has_id /\ n.id # 0 THEN <<n.id>> ELSE <<>>)
             \o seed_ids(Tail(matching))

TraversalOutcomes(store, node_ids) ==
    {[kind |-> "connect_fail", err |-> "ServiceUnavailable", data |-> NoRows]}
    \cup {[kind |-> "error", err |-> e, data |-> NoRows] : e \in StoreErrors}
    \cup {[kind |-> "rows", err |-> None, data |-> <<TraversalRow(store, node_ids)>>]}

\* lines 110-112: the except clause logs the error and the empty subgraph is
\* returned
traversal_failure_Propagates(err) ==
    [escaped |-> TRUE, nodes |-> <<>>, relationships |-> <<>>]

traversal_failure(err) ==
    [escaped |-> FALSE, nodes |-> <<>>, relationships |-> <<>>]

\* line 103: the entries of a list that are not None
RECURSIVE without_none(_)
without_none(entries) ==
    IF entries = <<>> THEN <<>>
    ELSE (IF Head(entries) = NoneNode THEN <<>> ELSE <<Head(entries)>>)
         \o without_none(Tail(entries))

\* lines 84-112
get_subgraph_with_relationships(node_ids, d, o) ==
    LET run == execute_query(d, o)
    IN  IF run.raised THEN traversal_failure(run.err)
        ELSE IF run.data = NoRows
        THEN [escaped |-> FALSE, nodes |-> <<>>, relationships |-> <<>>]
        ELSE [escaped |-> FALSE,
              nodes |-> without_none(run.data[1].nodes \o run.data[1].connected_nodes),
              relationships |-> without_none(run.data[1].relationships)]

\* lines 32-33 and 45-46
short_result(names) ==
    [nodes |-> <<>>, relationships |-> <<>>, entities |-> names]

\* lines 58-63
full_result(subgraph, names) ==
    [nodes |-> subgraph.nodes, relationships |-> subgraph.relationships,
     entities |-> names, query |-> "query"]

\* what a finished call leaves in the log
LogEntry(names, traversal, result, raised) ==
    [entities |-> names, traversal |-> traversal, result |-> result,
     raised |-> raised]

\* line 24: max_nodes: int = 50
DefaultMaxNodes == 50

\* the values passed as max_nodes
NodeCaps == {1, 2, DefaultMaxNodes}

\* the state at the call of extract_subgraph(query, max_nodes)
XCall ==
    /\ x_store \in Stores
    /\ x_answer \in Answers
    /\ x_store = CrowdedStore => Len(x_answer) <= 1
    /\ x_driver = "none"
    /\ x_pc = "call"
    /\ x_entities = <<>>
    /\ x_idx = 0
    /\ x_matching = <<>>
    /\ x_node_ids = <<>>
    /\ x_traversal = "none"
    /\ x_result = NoResult
    /\ x_raised = FALSE
    /\ x_log = <<>>

\* extract_subgraph(query): max_nodes takes its default
XInit == XCall /\ x_max_nodes = DefaultMaxNodes

\* extract_subgraph(query, max_nodes)
XCapped == XCall /\ x_max_nodes \in NodeCaps

XIdle ==
    /\ x_max_nodes = DefaultMaxNodes
    /\ x_store = [names |-> <<>>, links |-> {}, ids |-> TRUE]
    /\ x_answer = <<>>
    /\ x_driver = "none"
    /\ x_pc = "idle"
    /\ x_entities = <<>>
    /\ x_idx = 0
    /\ x_matching = <<>>
    /\ x_node_ids = <<>>
    /\ x_traversal = "none"
    /\ x_result = NoResult
    /\ x_raised = FALSE
    /\ x_log = <<>>

\* the call ends: with a value, or with an exception that escapes it
Finish(names, traversal, result, raised) ==
    /\ x_pc' = "done"
    /\ x_traversal' = traversal
    /\ x_result' = result
    /\ x_raised' = raised
    /\ x_log' = Append(x_log, LogEntry(names, traversal, result, raised))

\* lines 29-33
IdentifyEntities ==
    /\ x_pc = "call"
    /\ \E raised \in BOOLEAN :
        LET names == identify_entities_from_query(raised, x_answer)
        IN  /\ x_entities' = names
            /\ IF names = <<>>
               THEN Finish(names, "none", short_result(names), FALSE)
               ELSE /\ x_pc' = "search"
                    /\ UNCHANGED <<x_traversal, x_result, x_raised, x_log>>
    /\ UNCHANGED <<x_max_nodes, x_store, x_driver, x_answer, x_idx, x_matching, x_node_ids>>
    /\ UNCHANGED not_extract

\* lines 36-42: one turn of the loop; search_nodes is called outside any try,
\* so an exception of the store leaves extract_subgraph
SearchEntity ==
    /\ x_pc = "search"
    /\ x_idx < Len(x_entities)
    /\ \/ \E o \in {s \in StoreOutcomes : s.kind # "rows"} :
            /\ OutcomePossible(x_driver, o)
            /\ x_driver' = execute_query(x_driver, o).driver
            /\ Finish(x_entities, "none", x_result, TRUE)
            /\ UNCHANGED <<x_idx, x_matching>>
       \/ \E rows \in candidate_rows(x_store, x_entities[x_idx + 1]) :
            /\ x_driver' = "open"
            /\ x_matching' = x_matching \o rows
            /\ x_idx' = x_idx + 1
            /\ UNCHANGED <<x_pc, x_traversal, x_result, x_raised, x_log>>
    /\ UNCHANGED <<x_max_nodes, x_store, x_answer, x_entities, x_node_ids>>
    /\ UNCHANGED not_extract

\* lines 44-46
ReturnNoMatch ==
    /\ x_pc = "search"
    /\ x_idx = Len(x_entities)
    /\ x_matching = <<>>
    /\ Finish(x_entities, "none", short_result(x_entities), FALSE)
    /\ UNCHANGED <<x_max_nodes, x_store, x_driver, x_answer, x_entities, x_idx, x_matching,
                   x_node_ids>>
    /\ UNCHANGED not_extract

\* lines 48-63
Traverse ==
    /\ x_pc = "search"
    /\ x_idx = Len(x_entities)
    /\ x_matching # <<>>
    /\ LET node_ids == seed_ids(x_matching)
       IN  \E o \in TraversalOutcomes(x_store, node_ids) :
            LET subgraph == get_subgraph_with_relationships(node_ids, x_driver, o)
            IN  /\ OutcomePossible(x_driver, o)
                /\ x_node_ids' = node_ids
                /\ x_driver' = execute_query(x_driver, o).driver
                /\ IF subgraph.escaped
                   THEN Finish(x_entities, o.kind, x_result, TRUE)
                   ELSE Finish(x_entities, o.kind,
                               full_result(subgraph, x_entities), FALSE)
    /\ UNCHANGED <<x_max_nodes, x_store, x_answer, x_entities, x_idx, x_matching>>
    /\ UNCHANGED not_extract

XNext == IdentifyEntities \/ SearchEntity \/ ReturnNoMatch \/ Traverse

\* the caller asks the same question again
CallAgain ==
    /\ x_pc = "done"
    /\ Len(x_log) < 2
    /\ x_pc' = "call"
    /\ x_entities' = <<>>
    /\ x_idx' = 0
    /\ x_matching' = <<>>
    /\ x_node_ids' = <<>>
    /\ x_traversal' = "none"
    /\ x_result' = NoResult
    /\ x_raised' = FALSE
    /\ UNCHANGED <<x_max_nodes, x_store, x_driver, x_answer, x_log>>
    /\ UNCHANGED not_extract

(***************************************************************************)
(* FactCheckingOrchestrator.check_facts                                    *)
(*                                                                         *)
(* check_facts calls extract_subgraph (the extractor's actions above),     *)
(* then VerificationAgent.verify_facts and _generate_answer.               *)
(***************************************************************************)
\* the subgraph as the fact extractor sees it: record.data() hands nodes and
\* relationships back as plain values without a __dict__
as_mappings(store, subgraph) ==
    [relationships |->
        [k \in DOMAIN subgraph.relationships |->
            [repr |-> "mapping",
             start |-> store.names[subgraph.relationships[k].start + 1],
             type |-> subgraph.relationships[k].type,
             end |-> store.names[subgraph.relationships[k].end + 1]]],
     nodes |->
        [k \in DOMAIN subgraph.nodes |->
            [repr |-> "mapping", name |-> subgraph.nodes[k].name, type |-> Missing]]]

\* what the external source does with the names of one call
CheckLookups ==
    {o \in LookupOutcomes : o.kind = "search_raised" \/ o.summary = Text(3)}

\* what the completion service does with the comparison prompt of one call
CheckCompletions ==
    {[raised |-> TRUE, err |-> "RateLimitError", content |-> <<>>],
     [raised |-> FALSE, err |-> None, content |-> <<>>],
     [raised |-> FALSE, err |-> None, content |-> <<"confidence", ":", "1">>]}

RECURSIVE get_ground_truth(_, _, _)
\* verification_agent.py lines 68-89: the loop over entities[:5]
get_ground_truth(gt, names, outcomes) ==
    IF names = <<>> THEN gt
    ELSE get_ground_truth(lookup(gt, Head(names), Head(outcomes)).truth,
                          Tail(names), Tail(outcomes))

\* line 28: subgraph.get("nodes") is truthy
has_nodes_OrEntities(subgraph) == subgraph.nodes # <<>> \/ subgraph.entities # <<>>

has_nodes(subgraph) == subgraph.nodes # <<>>

\* lines 30-36
no_information(subgraph) ==
    [query |-> "query", success |-> FALSE,
     message |-> "No relevant information found in the knowledge graph",
     subgraph |-> subgraph, verification |-> None]

\* verification_agent.py lines 36-42
verification_record(facts, gt, verdict) ==
    [query |-> "query", facts |-> facts, ground_truth |-> gt,
     verification |-> verdict, confidence_score |-> verdict.confidence]

\* lines 55-82: the pieces of the answer text
generate_answer(subgraph, verification) ==
    [num_nodes |-> Len(subgraph.nodes),
     num_relationships |-> Len(subgraph.relationships),
     confidence |-> verification.confidence_score,
     analysis |-> verification.verification.analysis,
     sources |-> {k \in DOMAIN verification.ground_truth :
                    "url" \in DOMAIN verification.ground_truth[k]}]

\* lines 46-53
success_result(subgraph, verification) ==
    [query |-> "query", success |-> TRUE,
     answer |-> generate_answer(subgraph, verification),
     subgraph |-> subgraph, verification |-> verification,
     confidence_score |-> verification.confidence_score]

OInit ==
    /\ o_pc = "extract"
    /\ o_truth = EmptyMap
    /\ o_lookups = 0
    /\ o_compares = 0
    /\ o_result = NoResult
    /\ o_raised = FALSE

OIdle ==
    /\ o_pc = "idle"
    /\ o_truth = EmptyMap
    /\ o_lookups = 0
    /\ o_compares = 0
    /\ o_result = NoResult
    /\ o_raised = FALSE

\* line 26: the call of extract_subgraph is in no try
ExtractionRaised ==
    /\ o_pc = "extract"
    /\ x_pc = "done"
    /\ x_raised
    /\ o_raised' = TRUE
    /\ o_pc' = "done"
    /\ UNCHANGED <<o_truth, o_lookups, o_compares, o_result>>
    /\ UNCHANGED not_check

\* lines 28-36
ReturnNoInformation ==
    /\ o_pc = "extract"
    /\ x_pc = "done"
    /\ ~x_raised
    /\ ~has_nodes(x_result)
    /\ o_result' = no_information(x_result)
    /\ o_pc' = "done"
    /\ UNCHANGED <<o_truth, o_lookups, o_compares, o_raised>>
    /\ UNCHANGED not_check

\* line 40, verification_agent.py lines 28-32: the facts and the ground truth
ResolveGroundTruth ==
    /\ o_pc = "extract"
    /\ x_pc = "done"
    /\ ~x_raised
    /\ has_nodes(x_result)
    /\ LET names == FirstEntities(x_result.entities)
       IN  /\ \E outcomes \in [1..Len(names) -> CheckLookups] :
                o_truth' = get_ground_truth(EmptyMap, names, outcomes)
           /\ o_lookups' = o_lookups + Len(names)
    /\ o_pc' = "compare"
    /\ UNCHANGED <<o_compares, o_result, o_raised>>
    /\ UNCHANGED not_check

\* verification_agent.py lines 34-42, then lines 44-53
CompareAndAnswer ==
    /\ o_pc = "compare"
    /\ \E o \in CheckCompletions :
        LET facts == extract_facts_from_subgraph(as_mappings(x_store, x_result))
            verdict == compare_facts(facts, o_truth, o).result
        IN  o_result' = success_result(x_result, verification_record(facts, o_truth, verdict))
    /\ o_compares' = o_compares + 1
    /\ o_pc' = "done"
    /\ UNCHANGED <<o_truth, o_lookups, o_raised>>
    /\ UNCHANGED not_check

ONext == ExtractionRaised \/ ReturnNoInformation \/ ResolveGroundTruth \/ CompareAndAnswer

(***************************************************************************)
(* LineageTracker.generate_lineage_map                                     *)
(*                                                                         *)
(* The endpoint of a relationship is a bare string, a plain mapping, an    *)
(* object with a _properties mapping, or something else (None).            *)
(***************************************************************************)
Endpoint(kind, name) == [kind |-> kind, name |-> name]

\* what a relationship of the subgraph holds under start, type and end
MapRelContents ==
    {[start |-> Endpoint("str", "A"), type |-> "R1", end |-> Endpoint("object", "B")],
     [start |-> Endpoint("dict", Missing), type |-> Missing, end |-> Endpoint("other", Missing)]}

MapRelValues ==
    {[repr |-> r, start |-> c.start, type |-> c.type, end |-> c.end] :
        r \in Reprs, c \in MapRelContents}

\* the node lists: none, one object node, one plain-mapping node
MapNodeLists ==
    {<<>>,
     <<[repr |-> "object", name |-> "A", type |-> "Company"]>>,
     <<[repr |-> "mapping", name |-> "A", type |-> Missing]>>}

\* lines 116-124
extract_node_name(node) ==
    IF node.kind = "str" THEN node.name
    ELSE IF node.kind \in {"dict", "object"} THEN get(node.name, "Unknown")
    ELSE "Unknown"

\* lines 106-111: the path of one relationship
path_of(rel) ==
    [start |-> extract_node_name(rel.start),
     relationship |-> get(rel.type, "RELATED_TO"),
     end |-> extract_node_name(rel.end)]

\* bool(rel): a relationship that holds its endpoints is true, None is not
truthy_map_rel(rel) == rel.repr # "none"

RECURSIVE extract_paths(_)
\* lines 97-114
extract_paths(rels) ==
    IF rels = <<>> THEN <<>>
    ELSE (IF truthy_map_rel(Head(rels)) /\ has_dict(Head(rels))
          THEN <<path_of(Head(rels))>> ELSE <<>>)
         \o extract_paths(Tail(rels))

\* lines 134-144: the plain mapping has no _properties entry, the object has
viz_node(node, i) ==
    IF node.repr = "object"
    THEN [id |-> i, label |-> get(node.name, "Node_" \o ToString(i)),
          type |-> get(node.type, "Entity")]
    ELSE [id |-> i, label |-> "Node_" \o ToString(i), type |-> "Entity"]

\* lines 126-160; every entry of the model's lists is truthy
create_visualization_data(nodes, rels) ==
    [nodes |-> [k \in DOMAIN nodes |-> viz_node(nodes[k], k - 1)],
     edges |-> [k \in DOMAIN rels |->
                  [source |-> extract_node_name(rels[k].start),
                   target |-> extract_node_name(rels[k].end),
                   label |-> get(rels[k].type, "RELATED_TO")]]]

\* line 170: limit to first 5 paths
ExplainedPaths == 5

HeaderText == [kind |-> "header", text |-> "the system traversed the following paths:"]

\* line 171: the numbered line of a path
path_line(i, path) ==
    [kind |-> "line", number |-> i, start |-> path.start,
     relationship |-> path.relationship, end |-> path.end]

\* line 174
more_paths(count) == [kind |-> "more", count |-> count]

NoPathsFound == <<[kind |-> "text", text |-> "No paths found in the knowledge graph."]>>

\* lines 162-175
generate_explanation(paths) ==
    IF paths = <<>> THEN NoPathsFound
    ELSE <<HeaderText>>
         \o [i \in 1..Min(Len(paths), ExplainedPaths) |-> path_line(i, paths[i])]
         \o (IF Len(paths) > ExplainedPaths
             THEN <<more_paths(Len(paths) - ExplainedPaths)>> ELSE <<>>)

NoLineageData == <<[kind |-> "text", text |-> "No data available to generate lineage map"]>>

\* lines 16-47
generate_lineage_map(subgraph) ==
    IF subgraph.nodes = <<>>
    THEN [query |-> "query", paths |-> <<>>, visualization_data |-> None,
          explanation |-> NoLineageData]
    ELSE LET paths == extract_paths(subgraph.relationships)
         IN  [query |-> "query", paths |-> paths,
              visualization_data |->
                  create_visualization_data(subgraph.nodes, subgraph.relationships),
              explanation |-> generate_explanation(paths),
              num_nodes |-> Len(subgraph.nodes),
              num_relationships |-> Len(subgraph.relationships)]

MInit ==
    /\ m_subgraph \in [nodes : MapNodeLists,
                       relationships : SeqsUpTo(MapRelValues, MaxMapRels)]
    /\ m_pc = "call"
    /\ m_result = NoResult

MIdle ==
    /\ m_subgraph = [nodes |-> <<>>, relationships |-> <<>>]
    /\ m_pc = "idle"
    /\ m_result = NoResult

GenerateLineageMap ==
    /\ m_pc = "call"
    /\ m_result' = generate_lineage_map(m_subgraph)
    /\ m_pc' = "done"
    /\ UNCHANGED m_subgraph
    /\ UNCHANGED not_map

MNext == GenerateLineageMap

(***************************************************************************)
(* Neo4jConnection: connect, close and execute_query on one connection     *)
(*                                                                         *)
(* A connection is its driver attribute together with the handles the      *)
(* driver library has handed out; handle k is handles[k].                  *)
(***************************************************************************)
NoHandle == 0

\* line 18: self.driver = None
new_connection == [driver |-> NoHandle, handles |-> <<>>]

\* lines 20-27: the assignment happens only when GraphDatabase.driver
\* returned; an exception is logged and raised again
connect(conn, ok) ==
    IF ok
    THEN [raised |-> FALSE,
          conn |-> [driver |-> Len(conn.handles) + 1,
                    handles |-> Append(conn.handles, "open")]]
    ELSE [raised |-> TRUE, conn |-> conn]

\* lines 29-33: the handle is closed, the attribute keeps it
close(conn) ==
    IF conn.driver # NoHandle
    THEN [conn EXCEPT !.handles[conn.driver] = "closed"]
    ELSE conn

\* line 37: not self.driver
no_driver_OrClosed(conn) ==
    conn.driver = NoHandle \/ conn.handles[conn.driver] = "closed"

no_driver(conn) == conn.driver = NoHandle

\* what the driver library does during one execute_query call: whether
\* GraphDatabase.driver returns a handle (if asked), and whether the session
\* runs the query or raises (a closed handle may do either)
QueryOutcomes == [connect_ok : BOOLEAN, kind : {"rows", "error"}]

\* lines 35-42 on the connection conn
execute_query_on(conn, o) ==
    LET lazy == no_driver(conn)
        c    == IF lazy THEN connect(conn, o.connect_ok)
                ELSE [raised |-> FALSE, conn |-> conn]
    IN  IF c.raised
        THEN [conn |-> c.conn, connected |-> lazy, ran |-> FALSE,
              handle |-> NoHandle, state |-> "none", raised |-> TRUE]
        ELSE [conn |-> c.conn, connected |-> lazy, ran |-> TRUE,
              handle |-> c.conn.driver,
              state |-> c.conn.handles[c.conn.driver],
              raised |-> (o.kind = "error")]

\* one call as the log keeps it: the attribute before the call, whether
\* connect() was entered, whether a handle was opened, the handle the query
\* ran on and its state at that time
CallEntry(op, before, connected, opened, handle, state, raised) ==
    [op |-> op, before |-> before, connected |-> connected, opened |-> opened,
     handle |-> handle, state |-> state, raised |-> raised]

NConn == [driver |-> n_driver, handles |-> n_handles]

NInit ==
    /\ n_driver = new_connection.driver
    /\ n_handles = new_connection.handles
    /\ n_log = <<>>

NIdle ==
    /\ n_driver = NoHandle
    /\ n_handles = <<>>
    /\ n_log = <<>>

Connect ==
    /\ Len(n_log) < MaxCalls
    /\ \E ok \in BOOLEAN :
        LET r == connect(NConn, ok)
        IN  /\ n_driver' = r.conn.driver
            /\ n_handles' = r.conn.handles
            /\ n_log' = Append(n_log,
                   CallEntry("connect", n_driver, TRUE, ~r.raised,
                             NoHandle, "none", r.raised))
    /\ UNCHANGED not_connection

Close ==
    /\ Len(n_log) < MaxCalls
    /\ LET c == close(NConn)
       IN  /\ n_driver' = c.driver
           /\ n_handles' = c.handles
    /\ n_log' = Append(n_log,
           CallEntry("close", n_driver, FALSE, FALSE, NoHandle, "none", FALSE))
    /\ UNCHANGED not_connection

ExecuteQuery ==
    /\ Len(n_log) < MaxCalls
    /\ \E o \in QueryOutcomes :
        LET r == execute_query_on(NConn, o)
        IN  /\ n_driver' = r.conn.driver
            /\ n_handles' = r.conn.handles
            /\ n_log' = Append(n_log,
                   CallEntry("execute_query", n_driver, r.connected,
                             Len(r.conn.handles) > Len(n_handles),
                             r.handle, r.state, r.raised))
    /\ UNCHANGED not_connection

NNext == Connect \/ Close \/ ExecuteQuery

(***************************************************************************)
(* DocumentProcessor.chunk_text                                            *)
(*                                                                         *)
(* Character i of a text is written as the number i, so that a chunk shows *)
(* the positions it was cut from.                                          *)
(***************************************************************************)
ChunkTexts == {[i \in 1..n |-> i] : n \in 0..MaxChunkText}

ChunkSizes == 1..MaxChunkSize

\* overlaps below, at and above the chunk size
Overlaps == 0..(MaxChunkSize + 1)

\* a slice bound as Python reads it: counted from the end when negative,
\* clipped to the text
slice_bound(n, b) == IF b < 0 THEN Max(n + b, 0) ELSE Min(b, n)

\* text[a:b]
slice(text, a, b) ==
    SubSeq(text, slice_bound(Len(text), a) + 1, slice_bound(Len(text), b))

\* a variant that starts the next chunk one character late
next_start_SkipsOne(end, overlap) == end - overlap + 1

\* line 87: start = end - overlap
next_start(end, overlap) == end - overlap

\* the iterations after which a loop that is still running is left alone:
\* more than a loop that advances can make
ChunkCap == MaxChunkText + 1

KInit ==
    /\ k_text \in ChunkTexts
    /\ k_size \in ChunkSizes
    /\ k_overlap \in Overlaps
    /\ k_start = 0
    /\ k_chunks = <<>>
    /\ k_pc = "loop"

KIdle ==
    /\ k_text = <<>>
    /\ k_size = 1
    /\ k_overlap = 0
    /\ k_start = 0
    /\ k_chunks = <<>>
    /\ k_pc = "idle"

\* lines 83-87: one turn of the while loop
ChunkStep ==
    /\ k_pc = "loop"
    /\ k_start < Len(k_text)
    /\ Len(k_chunks) < ChunkCap
    /\ LET end == k_start + k_size
       IN  /\ k_chunks' = Append(k_chunks, slice(k_text, k_start, end))
           /\ k_start' = next_start(end, k_overlap)
    /\ UNCHANGED <<k_text, k_size, k_overlap, k_pc>>
    /\ UNCHANGED not_chunk

\* lines 83, 89-90: the loop condition is false and the chunks are returned
ChunkReturn ==
    /\ k_pc = "loop"
    /\ ~(k_start < Len(k_text))
    /\ k_pc' = "done"
    /\ UNCHANGED <<k_text, k_size, k_overlap, k_start, k_chunks>>
    /\ UNCHANGED not_chunk

KNext == ChunkStep \/ ChunkReturn

(***************************************************************************)
(* IngestionPipeline.ingest_document                                       *)
(*                                                                         *)
(* The collaborators (process_document, extract_from_chunks, build_graph)  *)
(* either raise or return; what each would do is fixed when the call       *)
(* starts.                                                                 *)
(***************************************************************************)
DocErrors == {"FileNotFoundError", "ValueError", "PdfReadError"}

\* process_document: raises, or returns the text of the file
DocOutcomes ==
    {[raised |-> TRUE, err |-> e, text |-> <<>>] : e \in DocErrors}
    \cup {[raised |-> FALSE, err |-> None, text |-> t] : t \in ChunkTexts}

\* extract_from_chunks: raises, or returns entities and relationships
ExtractionOutcomes ==
    {[raised |-> TRUE, err |-> "MemoryError", entities |-> 0, relationships |-> 0]}
    \cup {[raised |-> FALSE, err |-> None, entities |-> n, relationships |-> n] :
            n \in 0..1}

\* build_graph: raises, or returns its statistics
GraphOutcomes ==
    {[raised |-> TRUE, err |-> "ServiceUnavailable", created |-> 0],
     [raised |-> FALSE, err |-> None, created |-> 1]}

\* document_processor.py line 77: def chunk_text(text, chunk_size, overlap)
ChunkTextParameters == {"text", "chunk_size", "overlap"}

\* ingestion.py lines 36-37: the keywords of the call
IngestKeywords == {"chunk_size", "chunk_overlap"}

\* a call binds when every keyword names a parameter; otherwise Python
\* raises TypeError before the body runs
binds(keywords, parameters) == keywords \subseteq parameters

RECURSIVE chunks_from(_, _, _, _)
\* document_processor.py lines 83-87, from the given start
chunks_from(text, size, overlap, start) ==
    IF start < Len(text)
    THEN <<slice(text, start, start + size)>>
         \o chunks_from(text, size, overlap, next_start(start + size, overlap))
    ELSE <<>>

\* lines 34-38: the call of chunk_text as ingest_document writes it; a loop
\* that does not advance never returns
call_chunk_text(text, size, overlap) ==
    IF ~binds(IngestKeywords, ChunkTextParameters)
    THEN [raised |-> TRUE, err |-> "TypeError", hangs |-> FALSE, chunks |-> <<>>]
    ELSE IF text # <<>> /\ overlap >= size
    THEN [raised |-> FALSE, err |-> None, hangs |-> TRUE, chunks |-> <<>>]
    ELSE [raised |-> FALSE, err |-> None, hangs |-> FALSE,
          chunks |-> chunks_from(text, size, overlap, 0)]

\* lines 57-63: the except clause
ingest_failure(err) ==
    [escaped |-> FALSE, hangs |-> FALSE,
     result |-> [success |-> FALSE, file_name |-> "file", error |-> err]]

\* lines 47-55
ingest_success(doc, chunks, ext, graph) ==
    [escaped |-> FALSE, hangs |-> FALSE,
     result |-> [success |-> TRUE, file_name |-> "file",
                 text_length |-> Len(doc.text), chunks |-> Len(chunks),
                 entities |-> ext.entities, relationships |-> ext.relationships,
                 graph_stats |-> [entities_created |-> graph.created]]]

\* lines 24-63
ingest_document(doc, ext, graph, size, overlap) ==
    IF doc.raised THEN ingest_failure(doc.err)
    ELSE LET c == call_chunk_text(doc.text, size, overlap)
         IN  IF c.raised THEN ingest_failure(c.err)
             ELSE IF c.hangs
             THEN [escaped |-> FALSE, hangs |-> TRUE, result |-> NoResult]
             ELSE IF ext.raised THEN ingest_failure(ext.err)
             ELSE IF graph.raised THEN ingest_failure(graph.err)
             ELSE ingest_success(doc, c.chunks, ext, graph)

IInit ==
    /\ i_doc \in DocOutcomes
    /\ i_extraction \in ExtractionOutcomes
    /\ i_graph \in GraphOutcomes
    /\ i_size \in ChunkSizes
    /\ i_overlap \in Overlaps
    /\ i_pc = "call"
    /\ i_result = NoResult
    /\ i_raised = FALSE

IIdle ==
    /\ i_doc = [raised |-> FALSE, err |-> None, text |-> <<>>]
    /\ i_extraction = [raised |-> FALSE, err |-> None, entities |-> 0, relationships |-> 0]
    /\ i_graph = [raised |-> FALSE, err |-> None, created |-> 0]
    /\ i_size = 1
    /\ i_overlap = 0
    /\ i_pc = "idle"
    /\ i_result = NoResult
    /\ i_raised = FALSE

IngestDocument ==
    /\ i_pc = "call"
    /\ LET r == ingest_document(i_doc, i_extraction, i_graph, i_size, i_overlap)
       IN  /\ ~r.hangs
           /\ i_raised' = r.escaped
           /\ i_result' = IF r.escaped THEN i_result ELSE r.result
    /\ i_pc' = "done"
    /\ UNCHANGED <<i_doc, i_extraction, i_graph, i_size, i_overlap>>
    /\ UNCHANGED not_ingest

INext == IngestDocument

InitQuery == QInit /\ GIdle /\ CIdle /\ VIdle /\ FIdle /\ PIdle /\ XIdle /\ OIdle /\ MIdle /\ NIdle /\ KIdle /\ IIdle

NextQuery == QNext

SpecQuery == InitQuery /\ [][NextQuery]_vars

InitGroundTruth == GInit /\ QIdle /\ CIdle /\ VIdle /\ FIdle /\ PIdle /\ XIdle /\ OIdle /\ MIdle /\ NIdle /\ KIdle /\ IIdle

NextGroundTruth == GNext

SpecGroundTruth == InitGroundTruth /\ [][NextGroundTruth]_vars

InitConfidence == CInit /\ QIdle /\ GIdle /\ VIdle /\ FIdle /\ PIdle /\ XIdle /\ OIdle /\ MIdle /\ NIdle /\ KIdle /\ IIdle

NextConfidence == CNext

SpecConfidence == InitConfidence /\ [][NextConfidence]_vars

InitCompare == VInit /\ QIdle /\ GIdle /\ CIdle /\ FIdle /\ PIdle /\ XIdle /\ OIdle /\ MIdle /\ NIdle /\ KIdle /\ IIdle

NextCompare == VNext

SpecCompare == InitCompare /\ [][NextCompare]_vars

InitFacts == FInit /\ QIdle /\ GIdle /\ CIdle /\ VIdle /\ PIdle /\ XIdle /\ OIdle /\ MIdle /\ NIdle /\ KIdle /\ IIdle

NextFacts == FNext

SpecFacts == InitFacts /\ [][NextFacts]_vars

InitPath == PInit /\ QIdle /\ GIdle /\ CIdle /\ VIdle /\ FIdle /\ XIdle /\ OIdle /\ MIdle /\ NIdle /\ KIdle /\ IIdle

NextPath == PNext

SpecPath == InitPath /\ [][NextPath]_vars

InitExtract == XInit /\ QIdle /\ GIdle /\ CIdle /\ VIdle /\ FIdle /\ PIdle /\ OIdle /\ MIdle /\ NIdle /\ KIdle /\ IIdle

NextExtract == XNext

SpecExtract == InitExtract /\ [][NextExtract]_vars

InitExtractCapped == XCapped /\ QIdle /\ GIdle /\ CIdle /\ VIdle /\ FIdle /\ PIdle /\ OIdle /\ MIdle /\ NIdle /\ KIdle /\ IIdle

SpecExtractCapped == InitExtractCapped /\ [][NextExtract]_vars

NextExtractTwice == IdentifyEntities \/ SearchEntity \/ ReturnNoMatch \/ Traverse \/ CallAgain

SpecExtractTwice == InitExtract /\ [][NextExtractTwice]_vars

InitCheckFacts == XInit /\ OInit /\ QIdle /\ GIdle /\ CIdle /\ VIdle /\ FIdle /\ PIdle /\ MIdle /\ NIdle /\ KIdle /\ IIdle

NextCheckFacts ==
    \/ IdentifyEntities \/ SearchEntity \/ ReturnNoMatch \/ Traverse
    \/ ExtractionRaised \/ ReturnNoInformation \/ ResolveGroundTruth \/ CompareAndAnswer

SpecCheckFacts == InitCheckFacts /\ [][NextCheckFacts]_vars

InitLineageMap == MInit /\ QIdle /\ GIdle /\ CIdle /\ VIdle /\ FIdle /\ PIdle /\ XIdle /\ OIdle /\ NIdle /\ KIdle /\ IIdle

NextLineageMap == MNext

SpecLineageMap == InitLineageMap /\ [][NextLineageMap]_vars

InitConnection == NInit /\ MIdle /\ QIdle /\ GIdle /\ CIdle /\ VIdle /\ FIdle /\ PIdle /\ XIdle /\ OIdle /\ KIdle /\ IIdle

NextConnection == NNext

SpecConnection == InitConnection /\ [][NextConnection]_vars

InitChunkText == KInit /\ MIdle /\ QIdle /\ GIdle /\ CIdle /\ VIdle /\ FIdle /\ PIdle /\ XIdle /\ OIdle /\ NIdle /\ IIdle

NextChunkText == KNext

\* the loop of chunk_text runs on whenever it can
SpecChunkText == InitChunkText /\ [][NextChunkText]_vars /\ WF_vars(NextChunkText)

InitIngest == IInit /\ MIdle /\ QIdle /\ GIdle /\ CIdle /\ VIdle /\ FIdle /\ PIdle /\ XIdle /\ OIdle /\ NIdle /\ KIdle

NextIngest == INext

SpecIngest == InitIngest /\ [][NextIngest]_vars

(***************************************************************************)
(* Properties of TextToCypherConverter.query (checked under SpecQuery)     *)
(***************************************************************************)
\* the attempt recorded in a log entry ran a candidate that raised nothing and
\* returned at least one record
EntrySucceeded(e) == e.exec = "rows" /\ e.data # NoRows

\* C1 (as stated): for every retry bound N >= 1, one call of query performs at
\* most N completion invocations and at most N store executions before it
\* returns; the store executions of _get_graph_schema count as well.
C1_AtMostNStoreExecutions ==
    max_retries >= 1 =>
        /\ llm_calls <= max_retries
        /\ schema_runs + cand_runs <= max_retries

\* C1 (amended): for every retry bound N >= 1, one call of query performs at
\* most N completion invocations and at most N executions of generated
\* candidates, plus at most 2 schema-introspection executions, hence at most
\* N + 2 store executions in all.
C1_BoundedCalls ==
    max_retries >= 1 =>
        /\ llm_calls <= max_retries
        /\ cand_runs <= max_retries
        /\ schema_runs <= 2
        /\ schema_runs + cand_runs <= max_retries + 2

\* a call that used every attempt and both schema queries
C1_Witness ==
    /\ q_pc = "done"
    /\ max_retries >= 2
    /\ llm_calls = max_retries
    /\ cand_runs = max_retries
    /\ schema_runs = 2

\* C2: if the first candidate execution that returns a non-empty record set
\* happens on attempt k, the call returns success = true with attempts = k and
\* the cypher text and data of that attempt, and no completion invocation or
\* store execution happens after that execution.
C2_FirstNonEmptyEndsCall ==
    \A k \in 1..Len(q_log) :
        EntrySucceeded(q_log[k]) =>
            /\ k = Len(q_log)
            /\ q_log[k].attempt = k
            /\ q_pc = "done"
            /\ ~q_raised
            /\ q_result = [success |-> TRUE, cypher |-> q_log[k].cypher,
                           data |-> q_log[k].data, attempts |-> k,
                           error |-> None]
            /\ llm_calls = q_log[k].llm_before
            /\ cand_runs = q_log[k].runs_before

\* a call that succeeded on its second or a later attempt
C2_Witness ==
    /\ q_pc = "done"
    /\ Len(q_log) >= 2
    /\ EntrySucceeded(q_log[Len(q_log)])
    /\ q_result.success = TRUE
    /\ q_result.attempts = Len(q_log)

\* C3: query returns success = true if and only if some attempt's execution
\* raised no error and returned at least one record; an attempt whose
\* execution raised or returned nothing never ends the call early and is
\* followed by the next attempt while attempts remain.
C3_SuccessIffNonEmptyExecution ==
    /\ q_pc = "done" =>
          (q_result.success = TRUE <=>
              \E k \in 1..Len(q_log) : EntrySucceeded(q_log[k]))
    /\ \A k \in 1..Len(q_log) :
          (~EntrySucceeded(q_log[k]) /\ k < max_retries) =>
              \/ Len(q_log) > k
              \/ q_pc \in {"generate", "execute"}

\* a call that went on after an execution error and after an empty result and
\* then succeeded
C3_Witness ==
    /\ q_pc = "done"
    /\ q_result.success = TRUE
    /\ \E i, j \in 1..Len(q_log) :
          /\ q_log[i].exec = "error"
          /\ q_log[j].exec = "rows" /\ q_log[j].data = NoRows

\* C4: when every one of the max_retries attempts fails (generation failure,
\* execution error or empty result, in any mix), the call returns
\* success = false with attempts = max_retries and the same fixed generic
\* error message whatever the attempts' errors were; it does not raise.
C4_ExhaustionIsGeneric ==
    (/\ q_pc = "done"
     /\ Len(q_log) = max_retries
     /\ \A k \in 1..Len(q_log) : ~EntrySucceeded(q_log[k]))
    => /\ ~q_raised
       /\ q_result = [success |-> FALSE, cypher |-> None, data |-> NoRows,
                      attempts |-> max_retries,
                      error |-> "Failed to generate valid Cypher query after all retries"]

\* an exhausted call whose attempts failed in three different ways
C4_Witness ==
    /\ q_pc = "done"
    /\ max_retries = 3
    /\ q_result.success = FALSE
    /\ \E i, j, k \in 1..Len(q_log) :
          /\ q_log[i].gen = "raised"
          /\ q_log[j].exec = "error" /\ q_log[j].error = "CypherSyntaxError"
          /\ q_log[k].exec = "rows" /\ q_log[k].data = NoRows


\* the attempt produced no candidate: None, or the empty string
IsEmptyCandidate(e) == e.cypher = None \/ e.cypher = <<>>

\* candidate executions made before the attempt of log entry k began
RunsBefore(k) == IF k = 1 THEN 0 ELSE q_log[k - 1].runs_before

\* C26: in query, an attempt whose completion call raised, or whose cleaned
\* output is the empty string, consumes one of the max_retries attempts
\* without any store execution; each candidate execution is preceded by a
\* completion invocation of the same attempt, and the number of candidate
\* executions never exceeds the number of completion invocations.
C26_EmptyAttemptRunsNothing ==
    /\ Len(q_log) <= max_retries
    /\ \A k \in 1..Len(q_log) :
          LET e == q_log[k]
          IN  /\ e.attempt = k
              /\ e.llm_before = k
              /\ e.runs_before <= e.llm_before
              /\ IsEmptyCandidate(e) =>
                    /\ ~e.ran
                    /\ e.exec = "none"
                    /\ e.runs_before = RunsBefore(k)
              /\ e.ran => (~IsEmptyCandidate(e) /\ e.runs_before = RunsBefore(k) + 1)
    /\ cand_runs <= llm_calls
    /\ Len(q_log) > 0 => cand_runs = q_log[Len(q_log)].runs_before

\* the completion call of the first attempt raised, the second attempt's
\* output was empty, and the third attempt's candidate was executed
C26_Witness ==
    /\ Len(q_log) = 3
    /\ q_log[1].gen = "raised" /\ ~q_log[1].ran
    /\ q_log[2].gen = "empty" /\ q_log[2].cypher = <<>> /\ ~q_log[2].ran
    /\ q_log[3].ran
    /\ cand_runs = 1 /\ llm_calls = 3

(***************************************************************************)
(* Properties of VerificationAgent._get_ground_truth (checked under        *)
(* SpecGroundTruth)                                                        *)
(***************************************************************************)
\* the names at positions 0..4 of the list
FirstFiveNames == {entities[i] : i \in 1..Min(Len(entities), 5)}

\* C5: for an entity-name list of any length, _get_ground_truth issues
\* external lookups only for the names at positions 0..4, and the mapping has
\* at most 5 entries whose keys are all among those first 5 names.
C5_OnlyFirstFiveLookedUp ==
    /\ Len(g_searched) <= 5
    /\ \A i \in 1..Len(g_searched) :
          i <= Len(entities) /\ g_searched[i] = entities[i]
    /\ DOMAIN ground_truth \subseteq FirstFiveNames
    /\ Cardinality(DOMAIN ground_truth) <= 5

\* a finished call on a list of more than 5 names whose sixth name is new and
\* whose first five names all got an entry
C5_Witness ==
    /\ g_pc = "done"
    /\ Len(entities) > 5
    /\ entities[6] \notin FirstFiveNames
    /\ Cardinality(DOMAIN ground_truth) = 5

\* a loop iteration whose search or page fetch raised
FailedLookupStep ==
    /\ g_pc = "loop"
    /\ g_idx' = g_idx + 1
    /\ Raised(g_last')

\* the failing name got its error entry, nothing escaped, the loop goes on
FailureRecorded ==
    /\ entities[g_idx + 1] \in DOMAIN ground_truth'
    /\ ground_truth'[entities[g_idx + 1]] = [error |-> g_last'.err]
    /\ ~g_raised'
    /\ g_pc' = "loop"

\* every name of the slice was looked up when the call returns
AllFirstFiveSearched ==
    g_pc = "done" => g_searched = SubSeq(entities, 1, Min(Len(entities), 5))

\* C6 (as stated): when the lookup for one name raises, that name is recorded
\* with an error entry, every later name among the first 5 is still looked up,
\* the exception never propagates, and the entries already recorded for
\* earlier names are unchanged.
C6_EarlierEntriesUnchanged ==
    /\ []AllFirstFiveSearched
    /\ [][FailedLookupStep =>
            /\ FailureRecorded
            /\ \A j \in 1..g_idx :
                  entities[j] \in DOMAIN ground_truth =>
                      ground_truth'[entities[j]] = ground_truth[entities[j]]]_vars

\* C6 (amended): as above, but the entries that stay unchanged are those
\* recorded under other names; when the list repeats a name, the entry an
\* earlier occurrence recorded is replaced by the error entry.
C6_OtherEntriesUnchanged ==
    /\ []AllFirstFiveSearched
    /\ [][FailedLookupStep =>
            /\ FailureRecorded
            /\ \A j \in 1..g_idx :
                  (entities[j] \in DOMAIN ground_truth
                   /\ entities[j] # entities[g_idx + 1]) =>
                      ground_truth'[entities[j]] = ground_truth[entities[j]]]_vars

\* a finished call in which a page was recorded, then a lookup of another name
\* raised, then a page for a third name was recorded
C6_Witness ==
    /\ g_pc = "done"
    /\ \E i, j, k \in 1..Min(Len(entities), 5) :
          /\ i < j /\ j < k
          /\ Cardinality({entities[i], entities[j], entities[k]}) = 3
          /\ {entities[i], entities[j], entities[k]} \subseteq DOMAIN ground_truth
          /\ DOMAIN ground_truth[entities[i]] = {"title", "summary", "url"}
          /\ DOMAIN ground_truth[entities[j]] = {"error"}
          /\ DOMAIN ground_truth[entities[k]] = {"title", "summary", "url"}

\* an entry of the mapping is a page record with a summary of at most 500
\* characters, or an error record
WellFormedEntry(e) ==
    \/ DOMAIN e = {"title", "summary", "url"} /\ Len(e.summary) <= 500
    \/ DOMAIN e = {"error"}

\* C7: after _get_ground_truth returns, every name among the first 5 has an
\* entry, and that entry is a record {title, summary, url} whose summary has at
\* most 500 characters or an {error} record, for every lookup outcome,
\* including a search that returns no candidate.
C7_EveryNameHasAnEntry ==
    g_pc = "done" =>
        \A n \in FirstFiveNames :
            /\ n \in DOMAIN ground_truth
            /\ WellFormedEntry(ground_truth[n])


(***************************************************************************)
(* Properties of VerificationAgent._extract_confidence_score (checked      *)
(* under SpecConfidence)                                                   *)
(***************************************************************************)
\* C8: for every response text the returned value lies in [0.0, 1.0]; when the
\* parsed number v is greater than 1 the result is min(v / 100, 1.0), and when
\* 0 <= v <= 1 the result is v (so 0.8 gives 0.8 and 80 gives 0.8).
C8_ScoreNormalized ==
    c_pc = "done" =>
        /\ c_score.den > 0
        /\ 0 <= c_score.num /\ c_score.num <= c_score.den
        /\ (c_parsed # NotParsed /\ c_parsed.num > c_parsed.den) =>
              IF c_parsed.num > 100 * c_parsed.den
              THEN c_score.num = c_score.den
              ELSE c_score.num * (c_parsed.den * 100) = c_parsed.num * c_score.den
        /\ (c_parsed # NotParsed /\ c_parsed.num <= c_parsed.den) =>
              c_score.num * c_parsed.den = c_parsed.num * c_score.den
        /\ c_text = <<"0", ".", "8", "confidence">> =>
              c_parsed = [num |-> 8, den |-> 10] /\ c_score.num * 10 = 8 * c_score.den
        /\ c_text = <<"Confidence", ":", "8", "0">> =>
              c_parsed = [num |-> 80, den |-> 1] /\ c_score.num * 10 = 8 * c_score.den

\* the text "Confidence:80" was parsed as 80 and scored 0.8
C8_Witness ==
    /\ c_pc = "done"
    /\ c_text = <<"Confidence", ":", "8", "0">>
    /\ c_parsed.num = 80 /\ c_parsed.den = 1
    /\ c_score.num * 10 = 8 * c_score.den

\* pattern p matches the text
Matches(p, t) == Search(p, t).matched

\* pattern p matches and its captured text is not a number
MatchesUnparseable(p, t) == Matches(p, t) /\ ~Parseable(Search(p, t).group)

\* pattern p is the first pattern that matches
FirstMatching(p, t) == Matches(p, t) /\ \A q \in 1..(p - 1) : ~Matches(q, t)

IsHalf(x) == x.num * 2 = x.den

\* C9 (as stated): the result is exactly 0.5 when no pattern matches the text,
\* and also whenever the first pattern that matches captured text that is not
\* parseable as a number, whatever the later patterns would match.
C9_FirstMatchUnparseableGivesHalf ==
    c_pc = "done" =>
        LET t == lower(c_text)
        IN  /\ (\A p \in 1..3 : ~Matches(p, t)) => IsHalf(c_score)
            /\ (\E p \in 1..3 : FirstMatching(p, t) /\ MatchesUnparseable(p, t))
                  => IsHalf(c_score)

\* C9 (amended): the result is exactly 0.5 when no pattern matches the text,
\* and when every pattern that matches captured text that is not parseable as
\* a number; when the first matching pattern captured unparseable text the
\* later patterns are still tried, and the first pattern whose capture parses
\* supplies the number.
C9_AllMatchesUnparseableGivesHalf ==
    c_pc = "done" =>
        LET t == lower(c_text)
        IN  /\ (\A p \in 1..3 : ~Matches(p, t) \/ MatchesUnparseable(p, t))
                  => IsHalf(c_score) /\ c_parsed = NotParsed
            /\ \A p, q \in 1..3 :
                  (/\ FirstMatching(p, t) /\ MatchesUnparseable(p, t)
                   /\ p < q
                   /\ Matches(q, t) /\ ~MatchesUnparseable(q, t)
                   /\ \A r \in (p + 1)..(q - 1) :
                         ~Matches(r, t) \/ MatchesUnparseable(r, t))
                  => c_parsed = float(Search(q, t).group)

\* a text whose only match captured "." : the result is the default
C9_Witness ==
    /\ c_pc = "done"
    /\ \E p \in 1..3 : MatchesUnparseable(p, lower(c_text))
    /\ \A p \in 1..3 : ~Matches(p, lower(c_text)) \/ MatchesUnparseable(p, lower(c_text))
    /\ IsHalf(c_score)


(***************************************************************************)
(* Properties of VerificationAgent._compare_facts (checked under           *)
(* SpecCompare)                                                            *)
(***************************************************************************)
\* the completion succeeded and no confidence pattern matched its text
NoPatternMatched ==
    /\ ~v_llm.raised
    /\ \A p \in 1..3 : ~Matches(p, lower(v_llm.content))

\* C10: when the completion capability raises inside _compare_facts, the
\* method returns confidence 0.0, an analysis string that embeds the error
\* text, facts_checked 0 and ground_truth_sources 0, and does not raise; this
\* result differs from the 0.5 default produced when the completion succeeded
\* but no confidence pattern matched.
C10_CompletionErrorResult ==
    v_pc = "done" =>
        /\ ~v_raised
        /\ v_llm.raised =>
              /\ v_result.confidence.num = 0
              /\ v_result.analysis = <<"Error during verification: ", v_llm.err>>
              /\ v_result.facts_checked = 0
              /\ v_result.ground_truth_sources = 0
        /\ NoPatternMatched =>
              /\ IsHalf(v_result.confidence)
              /\ v_result.analysis = v_llm.content
        /\ (v_llm.raised \/ NoPatternMatched) =>
              (v_result.confidence.num = 0 <=> v_llm.raised)

\* the completion raised on a call with facts and ground-truth sources
C10_Witness ==
    /\ v_pc = "done"
    /\ v_llm.raised
    /\ Len(v_facts) > 0
    /\ Cardinality(DOMAIN v_truth) > 0
    /\ v_result.confidence.num = 0
    /\ v_result.facts_checked = 0

\* C27: on the non-error path of _compare_facts, facts_checked equals the
\* number of facts actually placed in the comparison prompt, that is
\* min(number of facts, 10), so it never exceeds 10.
C27_FactsCheckedIsPromptCount ==
    (v_pc = "done" /\ ~v_raised /\ ~v_llm.raised) =>
        /\ v_result.facts_checked = Len(v_prompt.facts)
        /\ v_result.facts_checked = Min(Len(v_facts), 10)
        /\ v_result.facts_checked <= 10

(***************************************************************************)
(* Properties of VerificationAgent._extract_facts_from_subgraph (checked   *)
(* under SpecFacts)                                                        *)
(***************************************************************************)
\* the relationships of a list, None entries left out
RECURSIVE present_relationships(_)
present_relationships(rels) ==
    IF rels = <<>> THEN <<>>
    ELSE (IF Head(rels).repr = "none" THEN <<>> ELSE <<Head(rels)>>)
         \o present_relationships(Tail(rels))

\* the nodes of a list that carry both a name and a type
RECURSIVE named_typed_nodes(_)
named_typed_nodes(nodes) ==
    IF nodes = <<>> THEN <<>>
    ELSE (IF Head(nodes).repr # "none" /\ Head(nodes).name # Missing
             /\ Head(nodes).type # Missing
          THEN <<Head(nodes)>> ELSE <<>>)
         \o named_typed_nodes(Tail(nodes))

\* every relationship of the list carries its source, its type and its target
EndpointsAndTypeKnown(rels) ==
    \A i \in 1..Len(rels) :
        rels[i].start # Missing /\ rels[i].type # Missing /\ rels[i].end # Missing

\* the facts the claim describes: source TYPE target per relationship in
\* stored order, then name is a type per node that has both
DescribedFacts(subgraph) ==
    LET rels  == present_relationships(subgraph.relationships)
        nodes == named_typed_nodes(subgraph.nodes)
    IN  [i \in 1..Len(rels) |-> <<rels[i].start, rels[i].type, rels[i].end>>]
        \o [i \in 1..Len(nodes) |-> <<nodes[i].name, "is a", nodes[i].type>>]

\* C11: _extract_facts_from_subgraph returns exactly one fact
\* source TYPE target per relationship of the subgraph, in stored order,
\* followed by one fact name is a type per node that has both a name and a
\* type, whatever representation (plain mapping or object) the relationship
\* came in; the single relationship (A)-[OWNS]->(B) yields exactly A OWNS B.
C11_OneFactPerRelationship ==
    (f_pc = "done"
     /\ EndpointsAndTypeKnown(present_relationships(f_subgraph.relationships)))
        => f_facts = DescribedFacts(f_subgraph)

(***************************************************************************)
(* Properties of LineageTracker.find_path_between_entities (checked under  *)
(* SpecPath)                                                               *)
(***************************************************************************)
\* the text names the entity
Names(text, entity) == \E i \in 1..Len(text) : text[i] = entity

\* C12: find_path_between_entities never raises, for any pair of entity
\* names and any integer max_depth: when the store returns no row the result
\* is found = false with a message that names both entities, and when the
\* store raises (while connecting or while running the query) the result is
\* found = false with an error field holding the text of the exception.
C12_PathSearchNeverRaises ==
    p_pc = "done" =>
        /\ ~p_raised
        /\ "found" \in DOMAIN p_result
        /\ (p_store.kind = "rows" /\ p_store.data = NoRows) =>
              /\ p_result.found = FALSE
              /\ DOMAIN p_result = {"found", "message"}
              /\ Names(p_result.message, p_start)
              /\ Names(p_result.message, p_end)
        /\ (p_store.kind \in {"connect_fail", "error"}) =>
              /\ p_result.found = FALSE
              /\ DOMAIN p_result = {"found", "error"}
              /\ p_result.error = p_store.err

\* a call with a negative max_depth whose query the store rejected
C12_Witness ==
    /\ p_pc = "done"
    /\ p_depth = -1
    /\ p_store.kind = "error"
    /\ p_result = [found |-> FALSE, error |-> "CypherSyntaxError"]

\* the path of the row a finished call found
FoundPath == p_store.data[1].path

AllNamed(path) == \A i \in 1..Len(path.nodes) : path.nodes[i] # Missing

\* C18: on a found path the lineage has exactly one step per relationship of
\* the path, so its length equals path_length; step i goes from the name of
\* node i to the name of node i + 1 with the type of relationship i, and the
\* to of each step is the from of the next.
C18_OneStepPerRelationship ==
    (p_pc = "done" /\ p_store.kind = "rows" /\ p_store.data # NoRows
     /\ AllNamed(FoundPath)) =>
        /\ p_result.found = TRUE
        /\ Len(p_result.lineage) = p_result.path_length
        /\ Len(p_result.lineage) = Len(FoundPath.relationships)
        /\ \A i \in 1..Len(p_result.lineage) :
              /\ p_result.lineage[i].from = FoundPath.nodes[i]
              /\ p_result.lineage[i].relationship = FoundPath.relationships[i]
              /\ p_result.lineage[i].to = FoundPath.nodes[i + 1]
        /\ \A i \in 1..(Len(p_result.lineage) - 1) :
              p_result.lineage[i].to = p_result.lineage[i + 1].from

\* the alternating chain A0 ->[R0]-> A1 ->[R1]-> ... -> An of a lineage
Chain(lineage) ==
    <<NameText(lineage[1].from)>> \o
    [k \in 1..(2 * Len(lineage)) |->
        IF k % 2 = 1 THEN LinkText(lineage[(k + 1) \div 2].relationship)
        ELSE NameText(lineage[k \div 2].to)]

\* the pieces of a text that are node names or links
RECURSIVE ChainPieces(_)
ChainPieces(text) ==
    IF text = <<>> THEN <<>>
    ELSE (IF Head(text).kind = "prefix" THEN <<>> ELSE <<Head(text)>>)
         \o ChainPieces(Tail(text))

\* C19: for a lineage of n >= 1 steps over the nodes A0 .. An the explanation
\* is the alternating chain A0 ->[R0]-> A1 ->[R1]-> ... -> An, in which each
\* of the n + 1 positions contributes its node name exactly once: a two-step
\* path renders A ->[REL]-> B ->[REL2]-> C.
C19_ExplanationIsTheChain ==
    (p_pc = "done" /\ "lineage" \in DOMAIN p_result /\ p_result.lineage # <<>>) =>
        ChainPieces(p_result.explanation) = Chain(p_result.lineage)

\* the path has no relationship, or is a value without the sequences nodes
\* and relationships
ZeroSteps(path) == path.relationships = <<>> \/ path.repr = "list"

\* C23: when the store returns a row for the shortest-path query but the
\* path decomposes into zero lineage steps, find_path_between_entities
\* reports found = FALSE with an explanatory message rather than
\* found = TRUE with an empty lineage.
C23_ZeroStepPathIsNotFound ==
    (p_pc = "done" /\ ~p_raised /\ p_store.kind = "rows" /\ p_store.data # NoRows
     /\ ZeroSteps(FoundPath)) =>
        /\ p_result.found = FALSE
        /\ "message" \in DOMAIN p_result

(***************************************************************************)
(* Properties of ExtractorAgent.extract_subgraph (checked under            *)
(* SpecExtract and SpecExtractTwice)                                       *)
(***************************************************************************)
Returned == x_pc = "done" /\ ~x_raised

\* C15: every subgraph extract_subgraph returns holds no null node and no
\* two node entries with the same store identifier, also when a seed node is
\* a one-hop neighbour of another seed.
C15_NodesAreDistinct ==
    Returned =>
        \A i, j \in 1..Len(x_result.nodes) :
            /\ x_result.nodes[i] # NoneNode
            /\ i # j => x_result.nodes[i].sid # x_result.nodes[j].sid

\* the call ended after every search found no candidate
NoCandidateMatched ==
    /\ x_pc = "done"
    /\ x_entities # <<>>
    /\ x_idx = Len(x_entities)
    /\ x_matching = <<>>

\* the call ended after its traversal query raised
TraversalRaised == x_pc = "done" /\ x_traversal \in {"connect_fail", "error"}

\* C16: when extract_subgraph ends with no nodes because no candidate name
\* matched a store node, or because the traversal query raised a store error,
\* it returns, without raising, an empty node list and an empty relationship
\* list together with the full list of entity names; the entity list it
\* returns is empty only when no entity was identified.
C16_EmptySubgraphKeepsEntities ==
    /\ (NoCandidateMatched \/ TraversalRaised) =>
          /\ ~x_raised
          /\ x_result.nodes = <<>>
          /\ x_result.relationships = <<>>
          /\ x_result.entities = x_entities
          /\ x_result.entities # <<>>
    /\ (Returned /\ x_result.entities = <<>>) => x_entities = <<>>

\* a call whose traversal failed after two names found candidates
C16_Witness ==
    /\ TraversalRaised
    /\ x_matching # <<>>
    /\ x_result.nodes = <<>>
    /\ x_result.entities = <<"A", "B">>

NodeIds(result) == {result.nodes[i].sid : i \in 1..Len(result.nodes)}

RelIds(result) == {result.relationships[i].rid : i \in 1..Len(result.relationships)}

\* the call returned a subgraph and the store answered each of its queries
Answered(call) == ~call.raised /\ call.traversal \notin {"connect_fail", "error"}

\* two calls with the same question were made on the store, the completion
\* service named the same entities both times and the store answered
AskedTwice ==
    /\ Len(x_log) = 2
    /\ x_log[1].entities = x_log[2].entities
    /\ Answered(x_log[1])
    /\ Answered(x_log[2])

SameSubgraph ==
    /\ NodeIds(x_log[1].result) = NodeIds(x_log[2].result)
    /\ RelIds(x_log[1].result) = RelIds(x_log[2].result)

MatchingIds(store, value) ==
    {sid \in StoreIds(store) : Contains(store.names[sid + 1], value)}

\* no entity name matches more nodes than the search keeps
WithinSearchLimit(store, names) ==
    \A i \in 1..Len(names) : Cardinality(MatchingIds(store, names[i])) <= SearchLimit

C24_AtMostMaxNodes ==
    (x_pc = "done" /\ ~x_raised) => Len(x_result.nodes) <= x_max_nodes

\* the traversal query was sent in the call that just finished
Traversed == x_pc = "done" /\ x_traversal # "none"

\* the identifiers of the matched nodes that carry one
CarriedIds == {x_matching[k].n.id : k \in {j \in DOMAIN x_matching : x_matching[j].n.has_id}}

\* C28: in extract_subgraph, the set of seed identifiers passed to the
\* neighbourhood traversal equals the set of identifiers of all matched
\* nodes that carry an identifier, for every identifier value including 0.
C28_SeedsAreAllCarriedIds ==
    Traversed => {x_node_ids[k] : k \in DOMAIN x_node_ids} = CarriedIds

(***************************************************************************)
(* Properties of FactCheckingOrchestrator.check_facts (checked under       *)
(* SpecCheckFacts)                                                         *)
(***************************************************************************)
\* C13: check_facts never raises because a collaborator failed: whatever
\* failure the store (during the node search or the neighbourhood traversal),
\* the completion service or the external lookup produces, check_facts
\* returns a structured result.
C13_CheckFactsNeverRaises ==
    o_pc = "done" => (~o_raised /\ "success" \in DOMAIN o_result /\ o_result # NoResult)

\* C14: check_facts returns success = true with answer, subgraph,
\* verification and confidence_score exactly when the extracted subgraph has
\* at least one node; otherwise it returns success = false with a message and
\* a null verification, and then no external lookup and no fact-comparison
\* completion call has been made.
C14_SuccessIffNodes ==
    (o_pc = "done" /\ ~o_raised) =>
        IF x_result.nodes # <<>>
        THEN /\ o_result.success = TRUE
             /\ DOMAIN o_result = {"query", "success", "answer", "subgraph",
                                   "verification", "confidence_score"}
             /\ o_result.subgraph = x_result
             /\ o_result.confidence_score = o_result.verification.confidence_score
             /\ o_lookups = Min(Len(x_result.entities), GroundTruthLimit)
             /\ o_compares = 1
        ELSE /\ o_result.success = FALSE
             /\ DOMAIN o_result = {"query", "success", "message", "subgraph",
                                   "verification"}
             /\ o_result.verification = None
             /\ o_lookups = 0
             /\ o_compares = 0

\* a call whose entities matched nothing returned the failure result
C14_Witness ==
    /\ o_pc = "done"
    /\ ~o_raised
    /\ x_entities # <<>>
    /\ x_result.nodes = <<>>
    /\ o_result.success = FALSE
    /\ o_lookups = 0

\* the facts verify_facts extracts from the subgraph of the call
FactsOfCall == extract_facts_from_subgraph(as_mappings(x_store, x_result))

\* C22: when the extracted subgraph has at least one node but yields zero
\* facts, check_facts reports success = FALSE with an explanatory message,
\* not a success = TRUE payload.
C22_ZeroFactsIsNotSuccess ==
    (o_pc = "done" /\ ~o_raised /\ has_nodes(x_result) /\ FactsOfCall = <<>>) =>
        /\ o_result.success = FALSE
        /\ "message" \in DOMAIN o_result

(***************************************************************************)
(* Properties of LineageTracker.generate_lineage_map (checked under        *)
(* SpecLineageMap)                                                         *)
(***************************************************************************)
IsPathLine(piece) == piece.kind = "line"

IsMoreNotice(piece) == piece.kind = "more"

\* C20: for a subgraph with at least one node and n relationships the
\* explanation of generate_lineage_map lists exactly the first min(n, 5)
\* relationships as lines numbered 1 .. min(n, 5), in stored order, and
\* appends a remainder notice, with the count n - 5, if and only if n > 5.
C20_FirstFiveRelationshipsListed ==
    (m_pc = "done" /\ m_subgraph.nodes # <<>>) =>
        LET rels   == m_subgraph.relationships
            n      == Len(rels)
            lines  == SelectSeq(m_result.explanation, IsPathLine)
            notice == SelectSeq(m_result.explanation, IsMoreNotice)
        IN  /\ Len(lines) = Min(n, 5)
            /\ \A i \in 1..Len(lines) :
                  /\ lines[i].number = i
                  /\ rels[i].type # Missing => lines[i].relationship = rels[i].type
            /\ IF n > 5 THEN notice = <<[kind |-> "more", count |-> n - 5]>>
               ELSE notice = <<>>

\* an endpoint that is missing or carries no name
Unresolved(node) ==
    \/ node.kind = "other"
    \/ node.kind \in {"dict", "object"} /\ node.name = Missing

HasUnresolvedEndpoint(rel) == Unresolved(rel.start) \/ Unresolved(rel.end)

ShownName(node) == IF Unresolved(node) THEN "Unknown" ELSE node.name

ShowsUnknown(path) == path.start = "Unknown" \/ path.end = "Unknown"

\* C21: a relationship of the subgraph whose start or end endpoint is
\* missing or has no resolvable name is never dropped by
\* generate_lineage_map: the returned paths hold one path for each such
\* relationship, in order, and the visualization edges hold its edge, both
\* with the literal name "Unknown" in place of the unresolved endpoint.
C21_UnresolvedEndpointsKept ==
    (m_pc = "done" /\ m_subgraph.nodes # <<>>) =>
        LET rels   == m_subgraph.relationships
            kept   == SelectSeq(rels, HasUnresolvedEndpoint)
            shown  == SelectSeq(m_result.paths, ShowsUnknown)
            edges  == m_result.visualization_data.edges
        IN  /\ Len(shown) = Len(kept)
            /\ \A k \in 1..Len(kept) :
                  /\ shown[k].start = ShownName(kept[k].start)
                  /\ shown[k].end = ShownName(kept[k].end)
            /\ Len(edges) = Len(rels)
            /\ \A k \in 1..Len(rels) :
                  HasUnresolvedEndpoint(rels[k]) =>
                      /\ edges[k].source = ShownName(rels[k].start)
                      /\ edges[k].target = ShownName(rels[k].end)

(***************************************************************************)
(* Properties of Neo4jConnection (checked under SpecConnection)            *)
(***************************************************************************)
IsQuery(j) == n_log[j].op = "execute_query"

\* a handle was opened before call j
OpenedBefore(j) == \E i \in 1..(j - 1) : n_log[i].opened

\* execute_query opens the connection only when no handle exists yet, and
\* once a connect has succeeded no later execute_query opens a second handle
LazyOnlyWithoutHandle ==
    \A j \in 1..Len(n_log) :
        IsQuery(j) =>
            /\ n_log[j].connected <=> n_log[j].before = NoHandle
            /\ n_log[j].opened => n_log[j].before = NoHandle
            /\ OpenedBefore(j) => (~n_log[j].connected /\ ~n_log[j].opened)

\* C25 as stated: over any sequence of execute_query, connect and close
\* calls on one Neo4jConnection, execute_query opens the connection only
\* when no handle exists yet; once a connect has succeeded, no later
\* execute_query opens a second handle; and after close() a later
\* execute_query runs on the closed handle instead of reconnecting.
C25_ClosedHandleAfterAnyClose ==
    /\ LazyOnlyWithoutHandle
    /\ \A i \in 1..Len(n_log) : \A j \in (i + 1)..Len(n_log) :
          (n_log[i].op = "close" /\ IsQuery(j)) =>
              /\ ~n_log[j].opened
              /\ n_log[j].handle # NoHandle => n_log[j].state = "closed"

\* call i closed a handle and no connect() has succeeded between i and j
ClosedAndKept(i, j) ==
    /\ n_log[i].op = "close"
    /\ n_log[i].before # NoHandle
    /\ \A k \in (i + 1)..(j - 1) : ~n_log[k].opened

\* C25 (amended): over any sequence of execute_query, connect and close
\* calls on one Neo4jConnection, execute_query opens the connection only
\* when no handle exists yet; once a connect has succeeded, no later
\* execute_query opens a second handle; and after a close() that closed a
\* handle, with no successful connect() since, a later execute_query runs on
\* that closed handle instead of reconnecting.
C25_ClosedHandleIsKept ==
    /\ LazyOnlyWithoutHandle
    /\ \A i \in 1..Len(n_log) : \A j \in (i + 1)..Len(n_log) :
          (ClosedAndKept(i, j) /\ IsQuery(j)) =>
              /\ ~n_log[j].connected
              /\ ~n_log[j].opened
              /\ n_log[j].handle = n_log[i].before
              /\ n_log[j].state = "closed"

\* a query opened the handle lazily, close() closed it, and the next query
\* ran on the closed handle
C25_Witness ==
    /\ Len(n_log) >= 3
    /\ n_log[1].op = "execute_query" /\ n_log[1].opened
    /\ n_log[2].op = "close"
    /\ n_log[3].op = "execute_query"
    /\ n_log[3].handle = 1 /\ n_log[3].state = "closed" /\ ~n_log[3].connected
    /\ Len(n_handles) = 1

(***************************************************************************)
(* Properties of DocumentProcessor.chunk_text (checked under               *)
(* SpecChunkText)                                                          *)
(***************************************************************************)
\* chunk_size >= 1 and 0 <= overlap < chunk_size
Advancing == k_size >= 1 /\ 0 <= k_overlap /\ k_overlap < k_size

\* overlap >= chunk_size and the text is not empty
NotAdvancing == k_overlap >= k_size /\ k_text # <<>>

ChunksFit == \A c \in 1..Len(k_chunks) : Len(k_chunks[c]) <= k_size

\* every character position of the text is in at least one chunk
Covered ==
    \A i \in 1..Len(k_text) :
        \E c \in 1..Len(k_chunks) : \E j \in 1..Len(k_chunks[c]) :
            k_chunks[c][j] = k_text[i]

\* C29: chunk_text terminates for every text and every chunk_size >= 1 with
\* 0 <= overlap < chunk_size, each chunk has at most chunk_size characters,
\* and every character position of the text is covered by at least one
\* chunk; with overlap >= chunk_size and a non-empty text the loop never
\* advances and does not terminate.
C29_ChunkTextTerminates ==
    /\ [](Advancing => (ChunksFit /\ (k_pc = "done" => Covered)))
    /\ (Advancing ~> k_pc = "done")
    /\ [](NotAdvancing => (k_start < Len(k_text) /\ k_pc # "done"))
    /\ [][NotAdvancing => k_start' <= k_start]_vars

\* a text cut into several overlapping chunks
C29_Witness ==
    /\ Advancing
    /\ k_overlap >= 1
    /\ k_pc = "done"
    /\ Len(k_chunks) >= 2
    /\ Covered

(***************************************************************************)
(* Properties of IngestionPipeline.ingest_document (checked under          *)
(* SpecIngest)                                                             *)
(***************************************************************************)
\* text extraction, entity extraction and graph building all succeed
CollaboratorsSucceed == ~i_doc.raised /\ ~i_extraction.raised /\ ~i_graph.raised

\* C30: ingest_document never raises; it returns success = TRUE, with the
\* chunk, entity and relationship counts and the graph statistics, whenever
\* text extraction, entity extraction and graph building all succeed for
\* the file, and it returns success = FALSE with an error only when one of
\* those collaborator steps raised.
C30_IngestSucceedsWithCollaborators ==
    i_pc = "done" =>
        /\ ~i_raised
        /\ CollaboratorsSucceed =>
              /\ i_result.success = TRUE
              /\ {"chunks", "entities", "relationships", "graph_stats"}
                     \subseteq DOMAIN i_result
        /\ i_result.success = FALSE =>
              /\ "error" \in DOMAIN i_result
              /\ ~CollaboratorsSucceed

=============================================================================
